---- MODULE Spec2Model ----
(***************************************************************************)
(* Model of the Google Places connector (src/google_api_connector.py):     *)
(* the retry state machine of make_post_api_call / make_get_api_call, the  *)
(* keyword and category acquisition cycles with their dataset cache, and   *)
(* the coverage loop of fetch_ggl_nearby.                                  *)
(*                                                                         *)
(* Times are in tenths of a second.  Place ids are integers; the id "n/a"  *)
(* of the sentinel records is NA and a missing id (None) is NoId.          *)
(***************************************************************************)
EXTENDS Integers, Sequences, FiniteSets, TLC

VARIABLES
    rs,                  \* make_post_api_call / make_get_api_call in progress
    cache,               \* storage: dataset id -> stored dataset
    place_details,       \* storage: place id -> stored details
    plan,                \* popularity_algo: status of every plan step
    req,                 \* the request of the invocation in progress
    pc,                  \* position inside fetch_ggl_nearby
    cycles,              \* iterations of "for _ in range(30)" started
    current_plan_index,
    next_plan_index,
    next_page_token,
    dataset,             \* result of query_ggl in the current cycle
    acq,                 \* locals of the acquisition in progress
    ret,                 \* value returned by fetch_ggl_nearby
    hist,                \* observations used by the properties
    invocations          \* invocations of fetch_ggl_nearby started

vars == <<rs, cache, place_details, plan, req, pc, cycles, current_plan_index,
          next_plan_index, next_page_token, dataset, acq, ret, hist,
          invocations>>

nearbyVars == <<cache, place_details, plan, req, pc, cycles,
                current_plan_index, next_plan_index, next_page_token,
                dataset, acq, ret, hist, invocations>>

----------------------------------------------------------------------------
(* Program constants *)

MIN_DELAY == 7
max_retries == 3
SentinelCount == 20
RangeLimit == 30
MinUseful == 20
NA == 0
NoId == 0 - 1

(* Bounds of the model *)

MaxCalls == 2            \* calls of make_*_api_call in one behaviour of SpecRetry

Statuses == {200, 429, 500}

----------------------------------------------------------------------------
(* Places and features *)

Place(id, name, reviews, phone, photos) ==
    [id |-> id, name |-> name, user_ratings_total |-> reviews,
     phone |-> phone, photos |-> photos, photosUri |-> "",
     popularity_score |-> 0]

SentinelPlace == Place(NA, "Faild to retreive data", 0, "", 0)

SentinelBatchOfOne == <<SentinelPlace>>

\* Lines 564-569.
SentinelBatch == [i \in 1..SentinelCount |-> SentinelPlace]

EmptyDetails == Place(NoId, "", 0, "", 0)

----------------------------------------------------------------------------
(* make_post_api_call and make_get_api_call: the retry state machine *)

Sleep(d) == [ev |-> "sleep", d |-> d, legacy |-> FALSE, status |-> 0]
Attempt(legacy, status) == [ev |-> "attempt", d |-> 0, legacy |-> legacy, status |-> status]

CallInit(kind) ==
    [kind |-> kind, retry_count |-> 0, use_legacy |-> FALSE, done |-> FALSE,
     sentinel |-> FALSE, result |-> <<>>, trace |-> <<>>, calls |-> 0,
     place_id |-> NoId]

Idle == [CallInit("none") EXCEPT !.done = TRUE]

PostIterNoReset(st, status, places) ==
    LET t1 == st.trace \o <<Sleep(MIN_DELAY), Attempt(st.use_legacy, status)>>
        rc == st.retry_count + 1
    IN  IF status = 200
        THEN [st EXCEPT !.trace = t1, !.done = TRUE, !.result = places]
        ELSE IF rc < max_retries
        THEN [st EXCEPT !.trace = Append(t1, Sleep(MIN_DELAY * (2 ^ rc))),
                        !.retry_count = rc]
        ELSE IF ~st.use_legacy
        THEN [st EXCEPT !.trace = t1, !.retry_count = 0, !.use_legacy = TRUE]
        ELSE [st EXCEPT !.trace = t1, !.retry_count = rc, !.done = TRUE,
                        !.sentinel = TRUE, !.result = SentinelBatch]

PostIterEarlySwitch(st, status, places) ==
    LET t1 == st.trace \o <<Sleep(MIN_DELAY), Attempt(st.use_legacy, status)>>
        rc == st.retry_count + 1
    IN  IF status = 200
        THEN [st EXCEPT !.trace = t1, !.done = TRUE, !.result = places]
        ELSE IF ~st.use_legacy
        THEN [st EXCEPT !.trace = t1, !.retry_count = 1, !.use_legacy = TRUE]
        ELSE IF rc < max_retries
        THEN [st EXCEPT !.trace = Append(t1, Sleep(MIN_DELAY * (2 ^ rc))),
                        !.retry_count = rc]
        ELSE [st EXCEPT !.trace = t1, !.retry_count = rc, !.done = TRUE,
                        !.sentinel = TRUE, !.result = SentinelBatch]

\* One iteration of "while retry_count < max_retries" of make_post_api_call.
PostIter(st, status, places) ==
    LET t1 == st.trace \o <<Sleep(MIN_DELAY), Attempt(st.use_legacy, status)>>
        rc == st.retry_count + 1
    IN  IF status = 200
        THEN [st EXCEPT !.trace = t1, !.done = TRUE, !.result = places]
        ELSE IF rc < max_retries
        THEN [st EXCEPT !.trace = Append(t1, Sleep(MIN_DELAY * (2 ^ rc))),
                        !.retry_count = rc]
        ELSE IF ~st.use_legacy
        THEN [st EXCEPT !.trace = t1, !.retry_count = rc - 2, !.use_legacy = TRUE]
        ELSE [st EXCEPT !.trace = t1, !.retry_count = rc, !.done = TRUE,
                        !.sentinel = TRUE, !.result = SentinelBatch]

GetIterNoPacing(st, status, details) ==
    LET t1 == Append(st.trace, Attempt(FALSE, status))
        rc == st.retry_count + 1
    IN  IF status = 200
        THEN [st EXCEPT !.trace = t1, !.done = TRUE, !.result = <<details>>]
        ELSE IF rc < max_retries
        THEN [st EXCEPT !.trace = Append(t1, Sleep(MIN_DELAY * (2 ^ rc))),
                        !.retry_count = rc]
        ELSE [st EXCEPT !.trace = t1, !.retry_count = rc, !.done = TRUE,
                        !.result = <<>>]

GetIterAsPost(st, status, details) == PostIter(st, status, <<details>>)

\* One iteration of "while retry_count < max_retries" of make_get_api_call.
GetIter(st, status, details) ==
    LET t1 == st.trace \o <<Sleep(MIN_DELAY), Attempt(FALSE, status)>>
        rc == st.retry_count + 1
    IN  IF status = 200
        THEN [st EXCEPT !.trace = t1, !.done = TRUE, !.result = <<details>>]
        ELSE IF rc < max_retries
        THEN [st EXCEPT !.trace = Append(t1, Sleep(MIN_DELAY * (2 ^ rc))),
                        !.retry_count = rc]
        ELSE [st EXCEPT !.trace = t1, !.retry_count = rc, !.done = TRUE,
                        !.result = <<>>]

RECURSIVE PostRun(_, _, _)
PostRun(st, script, places) ==
    IF st.done \/ ~(st.retry_count < max_retries) \/ script = <<>>
    THEN st
    ELSE PostRun(PostIter(st, Head(script), places), Tail(script), places)

\* make_post_api_call against a provider that answers the statuses of script.
make_post_api_call(script, places) ==
    PostRun(CallInit("post"), script, places).result

RECURSIVE GetRun(_, _, _)
GetRun(st, script, details) ==
    IF st.done \/ ~(st.retry_count < max_retries) \/ script = <<>>
    THEN st
    ELSE GetRun(GetIter(st, Head(script), details), Tail(script), details)

\* make_get_api_call: <<details>> on success, <<>> for the empty dict.
make_get_api_call(script, details) ==
    GetRun(CallInit("get"), script, details).result

----------------------------------------------------------------------------
(* What the provider can answer *)

P1 == Place(1, "a", 5, "", 1)
P2a == Place(2, "a", 0, "", 0)
P2b == [Place(2, "b", 0, "", 0) EXCEPT !.photosUri = "uri"]
P3 == [Place(3, "b", 0, "+966", 0) EXCEPT !.popularity_score = 101]
BigCount == 25
Big == [i \in 1..BigCount |-> Place(3 + i, "a", 0, "", 1)]

Batches == {<<>>, <<P1, P2a>>, <<P2b, P3>>, Big}

Scripts ==
    {<<200, 200, 200, 200, 200, 200>>,
     <<429, 200, 200, 200, 200, 200>>,
     <<429, 500, 429, 200, 200, 200>>,
     <<429, 429, 429, 429, 429, 429>>}

\* Everything one text-search or category-search POST can resolve to.
PostOutcomes == {make_post_api_call(s, b) : s \in Scripts, b \in Batches}

\* What the provider holds per geography: anything for the sample geography
\* (0) and the first tile of a coverage plan, nothing, one place or the big
\* batch for the next two tiles, and nothing beyond.
RichTiles == {0, 1}
BigTiles == {2, 3}
ProviderOutcomes(geo) ==
    IF geo \in RichTiles THEN PostOutcomes
    ELSE IF geo \in BigTiles
    THEN {make_post_api_call(s, b) : s \in Scripts \ {Scripts_f \in Scripts : Scripts_f[4] # 200},
                                      b \in {<<>>, Big, <<P1>>}}
    ELSE {make_post_api_call(s, <<>>) : s \in Scripts \ {Scripts_f \in Scripts : Scripts_f[4] # 200}}

OkScript == <<500, 200, 200>>
FailScript == <<404, 404, 404>>

\* Place ids whose details request may be answered with errors only.
DetailsMayFail == {2}

----------------------------------------------------------------------------
(* storage: dataset ids, load_dataset, store_data_resp *)

None == [type |-> "None", features |-> <<>>, properties |-> {}]

Truthy(d) == d.type # "None"

PropertyNames == {"id", "name", "user_ratings_total", "phone", "photos"}

make_dataset_filename(r) ==
    [kind |-> "full", geo |-> r.geo, q |-> r.boolean_query,
     inc |-> <<>>, exc |-> <<>>]

make_dataset_filename_part(r, included, excluded) ==
    [kind |-> "part", geo |-> r.geo, q |-> "",
     inc |-> included, exc |-> excluded]

load_dataset(c, id) == IF id \in DOMAIN c THEN c[id] ELSE None

store_data_resp(c, id, d) ==
    [x \in DOMAIN c \cup {id} |-> IF x = id THEN d ELSE c[x]]

Loaded(c, id) ==
    [ev |-> IF Truthy(load_dataset(c, id)) THEN "hit" ELSE "miss", id |-> id]
Called(id) == [ev |-> "call", id |-> id]
Stored(id) == [ev |-> "store", id |-> id]

\* MapBoxConnector.new_ggl_to_boxmap followed by convert_strings_to_ints:
\* one feature per provider record, carrying the record's property bag.
new_ggl_to_boxmap(query_results) ==
    [type |-> "FeatureCollection", features |-> query_results,
     properties |-> PropertyNames]

\* Lookup in an insertion-ordered dict kept as a sequence of <<key, value>>.
Keys(d) == {d[i][1] : i \in 1..Len(d)}
Get(d, k) ==
    IF k \in Keys(d)
    THEN d[CHOOSE i \in 1..Len(d) : d[i][1] = k][2]
    ELSE None
Put(d, k, v) ==
    IF k \in Keys(d)
    THEN [i \in 1..Len(d) |-> IF d[i][1] = k THEN <<k, v>> ELSE d[i]]
    ELSE Append(d, <<k, v>>)

----------------------------------------------------------------------------
(* Set composition: lines 185-211 and 213-237 / 303-327 *)

IdsOf(features) == {features[i].id : i \in 1..Len(features)}

FilterPlacesKeepAll(features, ids_to_exclude) == features

\* filtered_places: the include features whose id is not in ids_to_exclude.
FilterPlaces(features, ids_to_exclude) ==
    SelectSeq(features, LAMBDA place : place.id \notin ids_to_exclude)

ReconstructStoresInclude(include_dataset, exclude_dataset) ==
    [assigned |-> TRUE, stored |-> Truthy(include_dataset),
     value |-> IF Truthy(exclude_dataset)
               THEN [include_dataset EXCEPT
                       !.features = FilterPlaces(@, IdsOf(exclude_dataset.features))]
               ELSE include_dataset]

\* The partial dataset of one tuple: assigned says whether
\* datasets[partial_dataset_id] is set, stored whether it is written to the
\* cache, value is the dataset.
Reconstruct(include_dataset, exclude_dataset) ==
    IF Truthy(include_dataset)
    THEN IF Truthy(exclude_dataset)
         THEN LET filtered_places ==
                      FilterPlaces(include_dataset.features,
                                   IdsOf(exclude_dataset.features))
              IN  IF filtered_places # <<>>
                  THEN [assigned |-> TRUE, stored |-> TRUE,
                        value |-> [type |-> "FeatureCollection",
                                   features |-> filtered_places,
                                   properties |-> include_dataset.properties]]
                  ELSE [assigned |-> FALSE, stored |-> FALSE, value |-> None]
         ELSE [assigned |-> TRUE, stored |-> FALSE, value |-> include_dataset]
    ELSE [assigned |-> TRUE, stored |-> FALSE, value |-> None]

\* The elements of seq at the indices in keep, in the order of seq.
Pick(seq, keep) ==
    LET numbered == [i \in 1..Len(seq) |-> <<i, seq[i]>>]
        sel == SelectSeq(numbered, LAMBDA p : p[1] \in keep)
    IN  [k \in 1..Len(sel) |-> sel[k][2]]

AddFeaturesLastWins(combined, features) ==
    LET ids == {f.id : f \in {features[i] : i \in 1..Len(features)}} \ {NoId}
        last == {i \in 1..Len(features) :
                    /\ features[i].id # NoId
                    /\ \A j \in i + 1 .. Len(features) :
                           features[j].id # features[i].id}
    IN  SelectSeq(combined, LAMBDA g : g.id \notin ids) \o Pick(features, last)

\* The inner loop of the union: every feature whose id is not None and is not
\* yet in seen_ids (the ids of combined and of the features before it) is
\* appended.
AddFeatures(combined, features) ==
    LET fresh == {i \in 1..Len(features) :
                     /\ features[i].id # NoId
                     /\ features[i].id \notin IdsOf(combined)
                     /\ \A j \in 1 .. i - 1 : features[j].id # features[i].id}
    IN  combined \o Pick(features, fresh)

\* The outer loop over datasets.values(), in insertion order.
RECURSIVE UnionFeatures(_, _)
UnionFeatures(combined, datasets) ==
    IF datasets = <<>> THEN combined
    ELSE UnionFeatures(AddFeatures(combined, Head(datasets)[2].features),
                       Tail(datasets))

RECURSIVE UnionProperties(_)
UnionProperties(datasets) ==
    IF datasets = <<>> THEN {}
    ELSE Head(datasets)[2].properties \cup UnionProperties(Tail(datasets))

CombineNoneWhenEmpty(datasets) ==
    IF UnionFeatures(<<>>, datasets) = <<>> THEN None
    ELSE [type |-> "FeatureCollection",
          features |-> UnionFeatures(<<>>, datasets),
          properties |-> UnionProperties(datasets)]

\* Lines 214-237 / 304-330: combined is returned also when it has no features
\* (lines 246-249, 334-337).
Combine(datasets) ==
    [type |-> "FeatureCollection",
     features |-> UnionFeatures(<<>>, datasets),
     properties |-> UnionProperties(datasets)]

----------------------------------------------------------------------------
(* fetch_text_search_ggl_maps_api *)

AcqInit(path, r, optimized_queries) ==
    [path |-> path, phase |-> "lookup", queries |-> optimized_queries,
     combined_dataset_id |-> make_dataset_filename(r),
     separte_parts_datasets |-> <<>>, missing_queries |-> <<>>,
     all_missing_query_results |-> <<>>, datasets |-> <<>>,
     log |-> <<>>, result |-> None, hit |-> FALSE]

NoAcq == [AcqInit("none", [geo |-> 0, boolean_query |-> ""], <<>>)
             EXCEPT !.phase = "none"]

\* Lines 73-80 and 257-264: the combined dataset is looked up first.
LookupCombined(a, c) ==
    LET existing_combined_data == load_dataset(c, a.combined_dataset_id)
        l == Append(a.log, Loaded(c, a.combined_dataset_id))
    IN  IF Truthy(existing_combined_data)
        THEN [a EXCEPT !.log = l, !.phase = "ret", !.hit = TRUE,
                       !.result = existing_combined_data]
        ELSE [a EXCEPT !.log = l, !.phase = "scan"]

ScanAtomicNoDedup(a, c, id, inc_exc) ==
    IF Truthy(load_dataset(c, id))
    THEN [a EXCEPT !.log = Append(@, Loaded(c, id)),
                   !.separte_parts_datasets = Put(@, id, load_dataset(c, id))]
    ELSE [a EXCEPT !.log = Append(@, Loaded(c, id)),
                   !.missing_queries = Append(@, <<id, inc_exc>>)]

ScanAtomicNoLoad(a, c, id, inc_exc) ==
    IF id \notin Keys(a.missing_queries)
    THEN [a EXCEPT !.missing_queries = Put(@, id, inc_exc)]
    ELSE a

\* Lines 95-112 and 114-132: one atomic term-set of a tuple whose partial
\* dataset is not stored.
ScanAtomic(a, c, id, inc_exc) ==
    IF id \notin Keys(a.missing_queries)
       /\ id \notin Keys(a.separte_parts_datasets)
    THEN IF Truthy(load_dataset(c, id))
         THEN [a EXCEPT !.log = Append(@, Loaded(c, id)),
                        !.separte_parts_datasets = Put(@, id, load_dataset(c, id))]
         ELSE [a EXCEPT !.log = Append(@, Loaded(c, id)),
                        !.missing_queries = Put(@, id, inc_exc)]
    ELSE a

\* Lines 86-132: the loop over optimized_queries.
RECURSIVE KwScan(_, _, _, _)
KwScan(a, c, r, tuples) ==
    IF tuples = <<>> THEN a
    ELSE LET included_terms == Head(tuples)[1]
             excluded_terms == Head(tuples)[2]
             partial_dataset_id ==
                 make_dataset_filename_part(r, included_terms, excluded_terms)
             stored_data == load_dataset(c, partial_dataset_id)
             a0 == [a EXCEPT !.log = Append(@, Loaded(c, partial_dataset_id))]
             a1 == IF included_terms # <<>>
                   THEN ScanAtomic(a0, c,
                            make_dataset_filename_part(r, included_terms, <<>>),
                            <<included_terms, <<>>>>)
                   ELSE a0
             a2 == IF excluded_terms # <<>>
                   THEN ScanAtomic(a1, c,
                            make_dataset_filename_part(r, <<>>, excluded_terms),
                            <<<<>>, excluded_terms>>)
                   ELSE a1
         IN  IF Truthy(stored_data)
             THEN KwScan([a0 EXCEPT !.separte_parts_datasets =
                                        Put(@, partial_dataset_id, stored_data)],
                         c, r, Tail(tuples))
             ELSE KwScan(a2, c, r, Tail(tuples))

NeedsDetailsCallAlways(pd, place_id) == TRUE

\* Lines 590-591: the details store is asked first; a call is made when it
\* has nothing for the place id.
NeedsDetailsCall(pd, place_id) == place_id \notin DOMAIN pd

\* Lines 581-597: the details loop of single_ggl_text_call.  down is the set
\* of place ids for which the provider answers the details request with
\* errors only; the details of a place are the record the provider holds for
\* it.  A place id is fetched unless the details store has it, so a place
\* fetched with success is fetched once and a failing one at every occurrence.
DetailsLoop(pd, results, down) ==
    LET n == Len(results)
        fetched == [i \in 1..n |->
                       make_get_api_call(
                           IF results[i].id \in down \/ results[i].id = NA
                           THEN FailScript ELSE OkScript, results[i])]
        first == [i \in 1..n |->
                     CHOOSE j \in 1..i :
                        /\ results[j].id = results[i].id
                        /\ \A k \in 1 .. j - 1 : results[k].id # results[i].id]
        calls == {i \in 1..n :
                     /\ NeedsDetailsCall(pd, results[i].id)
                     /\ first[i] = i \/ fetched[i] = <<>>}
        got == {results[i].id : i \in {j \in calls : fetched[j] # <<>>}}
        called == Pick(results, calls)
    IN  [place_details |->
             [x \in DOMAIN pd \cup got |->
                 IF x \in DOMAIN pd THEN pd[x]
                 ELSE fetched[CHOOSE i \in calls : results[i].id = x][1]],
         results |->
             [i \in 1..n |->
                 IF results[i].id \in DOMAIN pd THEN pd[results[i].id]
                 ELSE IF fetched[i] # <<>> THEN fetched[first[i]][1]
                 ELSE EmptyDetails],
         log |-> [k \in 1..Len(called) |-> [ev |-> "details", id |-> called[k].id]]]

\* single_ggl_text_call: posted is what make_post_api_call resolved to.
single_ggl_text_call(r, posted, pd, down) ==
    IF r.ids_and_location_only
    THEN DetailsLoop(pd, posted, down)
    ELSE [place_details |-> pd, results |-> posted, log |-> <<>>]

\* Lines 134-153: every missing query is fetched; answers[i] is what the POST
\* of the i-th query resolves to and down the place ids whose details the
\* provider does not deliver.  st is <<acq, place_details>>.
RECURSIVE KwFetch(_, _, _, _, _)
KwFetch(st, r, i, answers, down) ==
    IF i > Len(st[1].missing_queries) THEN st
    ELSE LET dataset_id == st[1].missing_queries[i][1]
             call == single_ggl_text_call(r, answers[i], st[2], down)
         IN  KwFetch(
                 <<[st[1] EXCEPT
                      !.log = (@ \o <<Called(dataset_id)>>) \o call.log,
                      !.all_missing_query_results =
                          Put(@, dataset_id, call.results)],
                   call.place_details>>,
                 r, i + 1, answers, down)

ShouldStoreAlways(query_results) == TRUE

\* Lines 158 and 296: only an answer with records is converted and stored.
ShouldStore(query_results) == query_results # <<>>

process_and_store_to_db_Extend(c, dataset_id, query_results) ==
    LET format_response == new_ggl_to_boxmap(query_results)
        held == load_dataset(c, dataset_id)
    IN  [format_response |-> format_response,
         cache |-> store_data_resp(c, dataset_id,
                       [format_response EXCEPT
                          !.features = held.features \o @])]

\* Lines 55-61: the answer is converted and stored under the dataset id,
\* replacing what was stored there.
process_and_store_to_db(c, dataset_id, query_results) ==
    LET format_response == new_ggl_to_boxmap(query_results)
    IN  [format_response |-> format_response,
         cache |-> store_data_resp(c, dataset_id, format_response)]

\* process_and_store_to_db for every non-empty result (lines 155-162 and
\* 293-301).  st is <<acq, cache>>; into says which dict receives the dataset.
RECURSIVE StoreResults(_, _, _)
StoreResults(st, results, into) ==
    IF results = <<>> THEN st
    ELSE LET dataset_id == Head(results)[1]
             query_results == Head(results)[2]
             done == process_and_store_to_db(st[2], dataset_id, query_results)
             format_response == done.format_response
         IN  IF ShouldStore(query_results)
             THEN StoreResults(
                      <<IF into = "separte_parts_datasets"
                        THEN [st[1] EXCEPT
                                !.log = Append(@, Stored(dataset_id)),
                                !.separte_parts_datasets =
                                    Put(@, dataset_id, format_response)]
                        ELSE [st[1] EXCEPT
                                !.log = Append(@, Stored(dataset_id)),
                                !.datasets = Put(@, dataset_id, format_response)],
                        done.cache>>,
                      Tail(results), into)
             ELSE StoreResults(st, Tail(results), into)

\* Lines 170-178: the dataset held in separte_parts_datasets, else the cache.
Resolve(a, c, id) ==
    IF Truthy(Get(a.separte_parts_datasets, id))
    THEN Get(a.separte_parts_datasets, id)
    ELSE load_dataset(c, id)

ResolveLog(a, c, id) ==
    IF Truthy(Get(a.separte_parts_datasets, id)) THEN <<>>
    ELSE <<Loaded(c, id)>>

\* Lines 164-211: the partial dataset of every tuple.  st is <<acq, cache>>.
RECURSIVE KwCompose(_, _, _)
KwCompose(st, r, tuples) ==
    IF tuples = <<>> THEN st
    ELSE LET included_terms == Head(tuples)[1]
             excluded_terms == Head(tuples)[2]
             include_dataset_id == make_dataset_filename_part(r, included_terms, <<>>)
             exclude_dataset_id == make_dataset_filename_part(r, <<>>, excluded_terms)
             partial_dataset_id ==
                 make_dataset_filename_part(r, included_terms, excluded_terms)
             include_dataset == Resolve(st[1], st[2], include_dataset_id)
             exclude_dataset == Resolve(st[1], st[2], exclude_dataset_id)
             p == Reconstruct(include_dataset, exclude_dataset)
             l == (st[1].log \o ResolveLog(st[1], st[2], include_dataset_id))
                      \o ResolveLog(st[1], st[2], exclude_dataset_id)
         IN  KwCompose(
                 <<[st[1] EXCEPT
                      !.log = IF p.stored
                              THEN Append(l, Stored(partial_dataset_id)) ELSE l,
                      !.datasets = IF p.assigned
                                   THEN Put(@, partial_dataset_id, p.value)
                                   ELSE @],
                   IF p.stored
                   THEN store_data_resp(st[2], partial_dataset_id, p.value)
                   ELSE st[2]>>,
                 r, Tail(tuples))

StripIdWhenIdsOnly(r, features) ==
    IF r.ids_and_location_only
    THEN [i \in 1..Len(features) |-> [features[i] EXCEPT !.id = NoId]]
    ELSE features

\* Lines 241-244: the id is deleted from the returned features.
StripId(r, features) ==
    IF ~r.ids_and_location_only
    THEN [i \in 1..Len(features) |-> [features[i] EXCEPT !.id = NoId]]
    ELSE features

\* Lines 213-249: union, store under the combined id, return.
KwUnion(a, c, r) ==
    LET combined == Combine(a.datasets)
    IN  IF combined.features # <<>>
        THEN <<[a EXCEPT !.phase = "ret",
                         !.log = Append(@, Stored(a.combined_dataset_id)),
                         !.result = [combined EXCEPT
                                       !.features = StripId(r, @)]],
               store_data_resp(c, a.combined_dataset_id, combined)>>
        ELSE <<[a EXCEPT !.phase = "ret", !.result = combined], c>>

----------------------------------------------------------------------------
(* fetch_cat_google_maps_api *)

\* Lines 269-280: stored tuples go to datasets, the others to missing_queries
\* (a list: a tuple that occurs twice is listed twice).
RECURSIVE CatScan(_, _, _, _)
CatScan(a, c, r, tuples) ==
    IF tuples = <<>> THEN a
    ELSE LET included_types == Head(tuples)[1]
             excluded_types == Head(tuples)[2]
             full_dataset_id ==
                 make_dataset_filename_part(r, included_types, excluded_types)
             stored_data == load_dataset(c, full_dataset_id)
             a0 == [a EXCEPT !.log = Append(@, Loaded(c, full_dataset_id))]
         IN  IF Truthy(stored_data)
             THEN CatScan([a0 EXCEPT !.datasets = Put(@, full_dataset_id, stored_data)],
                          c, r, Tail(tuples))
             ELSE CatScan([a0 EXCEPT !.missing_queries =
                                 Append(@, <<full_dataset_id,
                                             <<included_types, excluded_types>>>>)],
                          c, r, Tail(tuples))

\* Lines 282-291: one single_ggl_cat_call per entry of missing_queries; the
\* results are kept in the order of missing_queries (zip).
CatFetch(a, answers) ==
    [a EXCEPT
       !.log = @ \o [i \in 1..Len(a.missing_queries) |->
                        Called(a.missing_queries[i][1])],
       !.all_missing_query_results =
           [i \in 1..Len(a.missing_queries) |->
               <<a.missing_queries[i][1], answers[i]>>]]

\* Lines 303-337: union, store under the combined id, return.
CatUnion(a, c) ==
    LET combined == Combine(a.datasets)
    IN  IF combined.features # <<>>
        THEN <<[a EXCEPT !.phase = "ret",
                         !.log = Append(@, Stored(a.combined_dataset_id)),
                         !.result = combined],
               store_data_resp(c, a.combined_dataset_id, combined)>>
        ELSE <<[a EXCEPT !.phase = "ret", !.result = combined], c>>

----------------------------------------------------------------------------
(* Collaborators of fetch_ggl_nearby *)

\* boolean_query_processor: the ordered (included, excluded) tuples of the
\* category clause and of the keyword clause of each boolean query.
Queries == {"q1", "q2", "q3"}

optimize_query_sequence(q) ==
    CASE q = "q1" -> << <<<<"cafe">>, <<>>>> >>
      [] q = "q2" -> << <<<<"bar">>, <<"pub">>>>, <<<<"cafe">>, <<>>>> >>
      [] q = "q3" -> << <<<<"bar">>, <<>>>>, <<<<"bar">>, <<>>>> >>

text_search_query_sequence(q) ==
    CASE q = "q1" -> << <<<<"tea">>, <<>>>> >>
      [] q = "q2" -> << <<<<"tea">>, <<"drive">>>>, <<<<"tea">>, <<>>>> >>
      [] q = "q3" -> << <<<<>>, <<"drive">>>> >>

\* popularity_algo.process_req_plan: the step the page token points at.
process_req_plan(r, p) ==
    [req |-> [r EXCEPT !.geo = r.page_token + 1],
     current_plan_index |-> r.page_token,
     next_page_token |-> IF r.page_token + 1 < Len(p) THEN r.page_token + 1 ELSE 0]

\* popularity_algo.rectify_plan: the step is recorded as skipped; the result
\* is the next pending step after it, or -1.
NextPending(p, index) ==
    LET later == {j \in index + 1 .. Len(p) - 1 : p[j + 1] = "pending"}
    IN  IF later = {} THEN 0 - 1
        ELSE CHOOSE j \in later : \A k \in later : j <= k

rectify_plan(p, index) ==
    [plan |-> [p EXCEPT ![index + 1] = "skipped"],
     next_plan_index |-> NextPending(p, index),
     next_page_token |-> IF NextPending(p, index) = 0 - 1 THEN 0
                         ELSE NextPending(p, index)]

\* popularity_algo.mark_plan_result
mark_plan_result(p, index, has_features) ==
    [p EXCEPT ![index + 1] = IF has_features THEN "success" ELSE "failed"]

----------------------------------------------------------------------------
(* Result filters *)

FilterSentinelsNone(features) == features

\* Lines 793-798.
FilterSentinels(features) ==
    SelectSeq(features, LAMBDA feature : feature.id # NA)

ValidLocationNoLink(r, f) ==
    IF r.include_rating_info
    THEN f.user_ratings_total > 3 \/ f.phone # ""
    ELSE f.photos > 0 \/ f.popularity_score > 100

\* Lines 864-885: the test of one feature.
ValidLocation(r, f) ==
    IF r.include_rating_info
    THEN f.user_ratings_total > 3 \/ f.phone # ""
    ELSE (IF f.photos > 0 THEN TRUE ELSE f.photosUri # "")
         \/ f.popularity_score > 100

ValidFeatures(r, features) ==
    SelectSeq(features, LAMBDA feature : ValidLocation(r, feature))

filter_ggl_data_valid_locations(r, d) ==
    [d EXCEPT !.features = ValidFeatures(r, d.features)]

\* Of the modelled property keys only id and name are in the allow-list.
select_sub_properties(d) ==
    [d EXCEPT !.features =
        [i \in 1..Len(d.features) |->
            [d.features[i] EXCEPT !.user_ratings_total = 0, !.phone = "",
                                  !.photos = 0, !.photosUri = "",
                                  !.popularity_score = 0]]]

query_ggl_DefaultKeyword(search_type) ==
    IF search_type = "category_search" THEN <<"cat">> ELSE <<"kw">>

\* Lines 723-732: the acquisitions query_ggl runs, in order; the dataset of
\* the last one is returned.  Each search type of the requests modelled
\* selects one acquisition.
query_ggl(search_type) ==
    (IF search_type \in {"default", "category_search"} THEN <<"cat">> ELSE <<>>)
        \o (IF search_type = "keyword_search" THEN <<"kw">> ELSE <<>>)

IsEmptyCycleNever(d) == FALSE

\* Line 768: the test for a cycle without features.
IsEmptyCycle(d) == Len(d.features) = 0

IsShortOfUsefulNever(d) == FALSE

\* Line 784: the test for a last dataset of fewer than 20 features.
IsShortOfUseful(d) == Len(d.features) < MinUseful

LoopContinuesAlways(n) == TRUE

\* Line 748, "for _ in range(30)": after n iterations another one follows.
LoopContinues(n) == n < RangeLimit

MaxOfFirst(a, b) == a

\* Lines 790-791.
MaxOf(a, b) == IF b > a THEN b ELSE a

----------------------------------------------------------------------------
(* The retry state machine, one loop iteration per step *)

\* Lines 593-596: what make_get_api_call resolved to is saved under the place
\* id only when it is not empty.
StoreDetails(pd, place_id, details) ==
    IF details # <<>>
    THEN [x \in DOMAIN pd \cup {place_id} |->
             IF x = place_id THEN details[1] ELSE pd[x]]
    ELSE pd

\* A details call is started for a place the details store does not hold
\* (lines 590-592); a text search call carries no place id.
StartCall(kind) ==
    /\ rs.done
    /\ rs.calls < MaxCalls
    /\ \E place_id \in IF kind = "get"
                        THEN {p \in {P1.id, P3.id} :
                                 NeedsDetailsCall(place_details, p)}
                        ELSE {NoId} :
          rs' = [CallInit(kind) EXCEPT !.calls = rs.calls + 1,
                                       !.place_id = place_id]
    /\ UNCHANGED nearbyVars

PostCallStep ==
    /\ rs.kind = "post"
    /\ ~rs.done
    /\ rs.retry_count < max_retries
    /\ \E status \in Statuses, places \in Batches :
          rs' = PostIter(rs, status, places)
    /\ UNCHANGED nearbyVars

GetCallStep ==
    /\ rs.kind = "get"
    /\ ~rs.done
    /\ rs.retry_count < max_retries
    /\ \E status \in Statuses,
          details \in {p \in {P1, P3} : p.id = rs.place_id} :
          /\ rs' = GetIter(rs, status, details)
          /\ place_details' =
                 IF rs'.done
                 THEN StoreDetails(place_details, rs.place_id, rs'.result)
                 ELSE place_details
    /\ UNCHANGED <<cache, plan, req, pc, cycles, current_plan_index,
                   next_plan_index, next_page_token, dataset, acq, ret, hist,
                   invocations>>

NearbyIdle ==
    /\ cache = <<>>
    /\ place_details = <<>>
    /\ plan = <<>>
    /\ req = <<>>
    /\ pc = "idle"
    /\ cycles = 0
    /\ current_plan_index = 0
    /\ next_plan_index = 0
    /\ next_page_token = 0
    /\ dataset = <<>>
    /\ acq = <<>>
    /\ ret = <<>>
    /\ hist = <<>>
    /\ invocations = 0

RetryInit ==
    /\ rs = Idle
    /\ NearbyIdle

RetryNext ==
    \/ StartCall("post")
    \/ StartCall("get")
    \/ PostCallStep
    \/ GetCallStep

SpecRetry == RetryInit /\ [][RetryNext]_vars

----------------------------------------------------------------------------
(* Properties of the retry state machine *)

IsAttempt(e) == e.ev = "attempt"
AttemptsOf(st) == SelectSeq(st.trace, IsAttempt)
AllFailed(st) == \A i \in 1..Len(AttemptsOf(st)) : AttemptsOf(st)[i].status # 200
PrimaryCount(st) == Cardinality({i \in 1..Len(AttemptsOf(st)) : ~AttemptsOf(st)[i].legacy})
LegacyCount(st) == Cardinality({i \in 1..Len(AttemptsOf(st)) : AttemptsOf(st)[i].legacy})

\* C1 (as stated): a POST call that only ever gets non-200 answers resolves to
\* the sentinel batch after exactly 3 primary attempts followed by exactly 3
\* legacy attempts.
C1_AsStated ==
    (rs.kind = "post" /\ rs.done /\ AllFailed(rs)) =>
        /\ rs.sentinel
        /\ PrimaryCount(rs) = 3
        /\ LegacyCount(rs) = 3

\* C1 (amended): a POST call that only ever gets non-200 answers makes exactly
\* 3 attempts on the primary protocol, then exactly 2 attempts on the legacy
\* protocol, and resolves to the sentinel batch at the 5th failed attempt and
\* not before.
C1_RetrySequence ==
    (rs.kind = "post" /\ AllFailed(rs)) =>
        LET a == AttemptsOf(rs)
        IN  /\ Len(a) <= 5
            /\ \A i \in 1..Len(a) : a[i].legacy = (i > 3)
            /\ rs.done = (Len(a) = 5)
            /\ rs.sentinel = (Len(a) = 5)
            /\ rs.sentinel => rs.result = SentinelBatch

C1_Witness ==
    /\ rs.kind = "post"
    /\ rs.done
    /\ rs.sentinel
    /\ AllFailed(rs)
    /\ LegacyCount(rs) = 2

----------------------------------------------------------------------------
(* fetch_ggl_nearby: the coverage loop around the acquisition cycles *)

\* A behaviour is one invocation of fetch_ggl_nearby with any number of
\* cycles, or two invocations of one cycle each.
InvocationNumbers == {1, 2}
LongPlan == 31           \* steps of the long coverage plan
PlanLens == {3, LongPlan}
StartTokens == {0}

\* ids_and_location_only is read by the keyword path only (lines 241, 357
\* and 581), so it is varied for keyword requests.
Requests ==
    {r \in [action : {"sample", "full data"},
            search_type : {"default", "category_search", "keyword_search"},
            ids_and_location_only : BOOLEAN,
            include_rating_info : BOOLEAN,
            include_only_sub_properties : BOOLEAN,
            boolean_query : {"q1"},
            page_token : {0},
            geo : {0}] :
        r.ids_and_location_only => r.search_type = "keyword_search"}

HistInit ==
    [first |-> <<>>, attempted |-> <<>>, rectified |-> <<>>,
     rect_ret |-> 0, marked |-> <<>>, before |-> {}]

Init ==
    /\ rs = Idle
    /\ cache = <<>>
    /\ place_details = <<>>
    /\ plan = <<>>
    /\ req \in Requests
    /\ pc = "idle"
    /\ cycles = 0
    /\ current_plan_index = 0
    /\ next_plan_index = 0
    /\ next_page_token = 0
    /\ dataset = None
    /\ acq = NoAcq
    /\ ret = <<>>
    /\ hist = HistInit
    /\ invocations = 0

\* Lines 741-745: a caller invokes fetch_ggl_nearby.
Invoke ==
    /\ pc \in {"idle", "done"}
    /\ invocations + 1 \in InvocationNumbers
    /\ invocations > 0 => cycles = 1
    /\ \E q \in Queries, t \in StartTokens :
          req' = [req EXCEPT !.boolean_query = q, !.page_token = t, !.geo = 0]
    /\ invocations' = invocations + 1
    /\ pc' = "loop"
    /\ cycles' = 0
    /\ current_plan_index' = 0
    /\ next_plan_index' = 0
    /\ next_page_token' = 0
    /\ dataset' = None
    /\ acq' = NoAcq
    /\ ret' = <<>>
    /\ hist' = [HistInit EXCEPT
                  !.first = hist.first,
                  !.before = hist.before \cup
                      {acq.log[j].id :
                          j \in {k \in 1..Len(acq.log) : acq.log[k].ev = "call"}}]
    /\ UNCHANGED <<rs, cache, place_details, plan>>

\* Lines 748-764: the head of one loop iteration up to the call of query_ggl
\* (lines 721-732 choose the acquisition).
LoopTop ==
    /\ pc = "loop"
    /\ invocations > 1 => cycles = 0
    /\ cycles' = cycles + 1
    /\ \E n \in IF req.boolean_query = "q1" THEN PlanLens ELSE {3} :
         LET p == IF plan = <<>> THEN [i \in 1..n |-> "pending"] ELSE plan
             step == process_req_plan(req, p)
             r == IF req.action = "full data" THEN step.req ELSE req
         IN  /\ plan' = IF req.action = "full data" THEN p ELSE plan
             /\ req' = r
             /\ current_plan_index' =
                    IF req.action = "full data" THEN step.current_plan_index
                    ELSE current_plan_index
             /\ next_page_token' =
                    IF req.action = "full data" THEN step.next_page_token
                    ELSE req.page_token
             /\ acq' = IF query_ggl(req.search_type)[1] = "cat"
                       THEN AcqInit("cat", r, optimize_query_sequence(r.boolean_query))
                       ELSE AcqInit("kw", r, text_search_query_sequence(r.boolean_query))
    /\ pc' = "acq"
    /\ UNCHANGED <<rs, cache, place_details, next_plan_index, dataset, ret,
                   hist, invocations>>

AcqFrame == <<rs, plan, req, pc, cycles, current_plan_index, next_plan_index,
              next_page_token, dataset, ret, hist, invocations>>

AcqLookupCombined ==
    /\ pc = "acq"
    /\ acq.phase = "lookup"
    /\ acq' = LookupCombined(acq, cache)
    /\ UNCHANGED <<AcqFrame, cache, place_details>>

KwScanStep ==
    /\ pc = "acq"
    /\ acq.path = "kw"
    /\ acq.phase = "scan"
    /\ LET a == KwScan(acq, cache, req, acq.queries)
       IN  acq' = [a EXCEPT !.phase = IF a.missing_queries # <<>>
                                       THEN "fetch" ELSE "compose"]
    /\ UNCHANGED <<AcqFrame, cache, place_details>>

KwFetchStep ==
    /\ pc = "acq"
    /\ acq.path = "kw"
    /\ acq.phase = "fetch"
    /\ \E answers \in [1..Len(acq.missing_queries) -> ProviderOutcomes(req.geo)],
          down \in IF req.ids_and_location_only
                   THEN SUBSET DetailsMayFail ELSE {{}} :
          LET st == KwFetch(<<acq, place_details>>, req, 1, answers, down)
          IN  /\ acq' = [st[1] EXCEPT !.phase = "store"]
              /\ place_details' = st[2]
    /\ UNCHANGED <<AcqFrame, cache>>

KwStoreStep ==
    /\ pc = "acq"
    /\ acq.path = "kw"
    /\ acq.phase = "store"
    /\ LET st == StoreResults(<<acq, cache>>, acq.all_missing_query_results,
                              "separte_parts_datasets")
       IN  /\ acq' = [st[1] EXCEPT !.phase = "compose"]
           /\ cache' = st[2]
    /\ UNCHANGED <<AcqFrame, place_details>>

KwComposeStep ==
    /\ pc = "acq"
    /\ acq.path = "kw"
    /\ acq.phase = "compose"
    /\ LET st == KwCompose(<<acq, cache>>, req, acq.queries)
       IN  /\ acq' = [st[1] EXCEPT !.phase = "union"]
           /\ cache' = st[2]
    /\ UNCHANGED <<AcqFrame, place_details>>

Remember(h, a) ==
    IF a.hit \/ a.result.features = <<>> THEN h
    ELSE [h EXCEPT !.first =
             [x \in DOMAIN h.first \cup {a.combined_dataset_id} |->
                 IF x = a.combined_dataset_id THEN a.result.features
                 ELSE h.first[x]]]

KwUnionStep ==
    /\ pc = "acq"
    /\ acq.path = "kw"
    /\ acq.phase = "union"
    /\ LET st == KwUnion(acq, cache, req)
       IN  /\ acq' = st[1]
           /\ cache' = st[2]
           /\ hist' = Remember(hist, st[1])
    /\ UNCHANGED <<rs, plan, req, pc, cycles, current_plan_index,
                   next_plan_index, next_page_token, dataset, ret,
                   invocations, place_details>>

CatScanStep ==
    /\ pc = "acq"
    /\ acq.path = "cat"
    /\ acq.phase = "scan"
    /\ LET a == CatScan(acq, cache, req, acq.queries)
       IN  acq' = [a EXCEPT !.phase = IF a.missing_queries # <<>>
                                       THEN "fetch" ELSE "union"]
    /\ UNCHANGED <<AcqFrame, cache, place_details>>

CatFetchStep ==
    /\ pc = "acq"
    /\ acq.path = "cat"
    /\ acq.phase = "fetch"
    /\ \E answers \in [1..Len(acq.missing_queries) -> ProviderOutcomes(req.geo)] :
          acq' = [CatFetch(acq, answers) EXCEPT !.phase = "store"]
    /\ UNCHANGED <<AcqFrame, cache, place_details>>

CatStoreStep ==
    /\ pc = "acq"
    /\ acq.path = "cat"
    /\ acq.phase = "store"
    /\ LET st == StoreResults(<<acq, cache>>, acq.all_missing_query_results,
                              "datasets")
       IN  /\ acq' = [st[1] EXCEPT !.phase = "union"]
           /\ cache' = st[2]
    /\ UNCHANGED <<AcqFrame, place_details>>

CatUnionStep ==
    /\ pc = "acq"
    /\ acq.path = "cat"
    /\ acq.phase = "union"
    /\ LET st == CatUnion(acq, cache)
       IN  /\ acq' = st[1]
           /\ cache' = st[2]
           /\ hist' = Remember(hist, st[1])
    /\ UNCHANGED <<rs, plan, req, pc, cycles, current_plan_index,
                   next_plan_index, next_page_token, dataset, ret,
                   invocations, place_details>>

\* Lines 764-779: query_ggl has returned; rectify on an empty dataset, break
\* or go round the loop again.
AfterQuery ==
    /\ pc = "acq"
    /\ acq.phase = "ret"
    /\ dataset' = acq.result
    /\ LET empty == IsEmptyCycle(acq.result)
           rect == rectify_plan(plan, current_plan_index)
           seen == [hist EXCEPT !.attempted =
                       Append(@, [step |-> current_plan_index,
                                  n |-> Len(acq.result.features)])]
       IN  IF req.action = "full data" /\ empty
           THEN /\ plan' = rect.plan
                /\ next_plan_index' = rect.next_plan_index
                /\ next_page_token' = rect.next_page_token
                /\ hist' = [seen EXCEPT
                              !.rectified = Append(@, current_plan_index),
                              !.rect_ret = rect.next_plan_index]
                /\ IF rect.next_plan_index = 0 - 1
                   THEN /\ pc' = "exit"
                        /\ req' = req
                   ELSE /\ pc' = IF LoopContinues(cycles) THEN "loop" ELSE "exit"
                        /\ req' = [req EXCEPT !.page_token = rect.next_page_token]
           ELSE /\ pc' = "exit"
                /\ hist' = seen
                /\ UNCHANGED <<plan, next_plan_index, next_page_token, req>>
    /\ UNCHANGED <<rs, cache, place_details, cycles, current_plan_index, acq,
                   ret, invocations>>

\* Lines 781-816: after the loop.
Finish ==
    /\ pc = "exit"
    /\ LET full == req.action = "full data"
           again == full /\ IsShortOfUseful(dataset)
           rect == rectify_plan(plan, current_plan_index)
           p1 == IF again THEN rect.plan ELSE plan
           npi == IF again THEN rect.next_plan_index ELSE next_plan_index
           npt == IF again THEN rect.next_page_token ELSE next_page_token
           d1 == [dataset EXCEPT !.features = FilterSentinels(@)]
           has_features == Len(d1.features) > 0
           d2 == IF full THEN filter_ggl_data_valid_locations(req, d1) ELSE d1
           d3 == IF req.include_only_sub_properties
                 THEN select_sub_properties(d2) ELSE d2
       IN  /\ plan' = IF full
                      THEN mark_plan_result(p1, current_plan_index, has_features)
                      ELSE p1
           /\ next_plan_index' = MaxOf(npi, current_plan_index + 1)
           /\ next_page_token' = npt
           /\ dataset' = d3
           /\ ret' = [dataset |-> d3,
                      bknd_dataset_id |-> make_dataset_filename(req),
                      next_page_token |-> npt,
                      plan_name |-> IF full THEN "plan" ELSE "",
                      next_plan_index |-> MaxOf(npi, current_plan_index + 1)]
           /\ hist' = [hist EXCEPT
                         !.rectified = IF again
                                       THEN Append(@, current_plan_index) ELSE @,
                         !.rect_ret = IF again THEN rect.next_plan_index ELSE @,
                         !.marked = IF full
                                    THEN Append(@, [step |-> current_plan_index,
                                                    has_features |-> has_features])
                                    ELSE @]
    /\ pc' = "done"
    /\ UNCHANGED <<rs, cache, place_details, req, cycles, current_plan_index,
                   acq, invocations>>

Next ==
    \/ Invoke
    \/ LoopTop
    \/ AcqLookupCombined
    \/ KwScanStep
    \/ KwFetchStep
    \/ KwStoreStep
    \/ KwComposeStep
    \/ KwUnionStep
    \/ CatScanStep
    \/ CatFetchStep
    \/ CatStoreStep
    \/ CatUnionStep
    \/ AfterQuery
    \/ Finish

Spec == Init /\ [][Next]_vars

----------------------------------------------------------------------------
(* The reconstruction of a partial dataset, applied to bounded inputs *)

Ten == [i \in 1..10 |-> Place(i, "a", 0, "", 1)]
TwoOfWhichOneShared == <<Place(10, "b", 0, "", 0), Place(11, "b", 0, "", 0)>>

SmallFeatureLists ==
    LET R == {P1, P2a, P2b, P3}
    IN  {<<x>> : x \in R} \cup {<<x, y>> : x \in R, y \in R}

ComposeInputs ==
    {None} \cup {new_ggl_to_boxmap(f) :
                    f \in SmallFeatureLists \cup {Ten, TwoOfWhichOneShared}}

ComposeFrame ==
    <<rs, cache, place_details, plan, req, pc, cycles, current_plan_index,
      next_plan_index, next_page_token, dataset, ret, hist, invocations>>

ComposeStart ==
    /\ rs = Idle
    /\ cache = <<>>
    /\ place_details = <<>>
    /\ plan = <<>>
    /\ req = <<>>
    /\ pc = "idle"
    /\ cycles = 0
    /\ current_plan_index = 0
    /\ next_plan_index = 0
    /\ next_page_token = 0
    /\ dataset = <<>>
    /\ ret = <<>>
    /\ hist = <<>>
    /\ invocations = 0
    /\ acq \in [include_dataset : ComposeInputs, exclude_dataset : ComposeInputs,
                applied : {FALSE}, partial : {Reconstruct(None, None)}]

\* Lines 185-211 for one tuple.
ApplyReconstruct ==
    /\ ~acq.applied
    /\ acq' = [acq EXCEPT
                 !.applied = TRUE,
                 !.partial = Reconstruct(acq.include_dataset, acq.exclude_dataset)]
    /\ UNCHANGED ComposeFrame

SpecCompose == ComposeStart /\ [][ApplyReconstruct]_vars

\* The features of the partial dataset: none when datasets[partial_dataset_id]
\* is not assigned.
PartialFeatures(p) == IF p.assigned THEN p.value.features ELSE <<>>

\* C3: the reconstructed partial dataset holds exactly the include records
\* whose id is not an id of the exclude dataset, in the order of the include
\* dataset; it is the include dataset when the exclude dataset is absent and
\* empty when the include dataset is absent; 10 include records against 2
\* exclude records with 1 shared id give 9 records.
C3_Reconstruct ==
    acq.applied =>
        LET A == acq.include_dataset
            B == acq.exclude_dataset
            out == PartialFeatures(acq.partial)
        IN  /\ ~Truthy(A) => out = <<>>
            /\ Truthy(A) /\ ~Truthy(B) => out = A.features
            /\ Truthy(A) /\ Truthy(B) =>
                  /\ IdsOf(out) = IdsOf(A.features) \ IdsOf(B.features)
                  /\ out = Pick(A.features,
                                {i \in 1..Len(A.features) :
                                    \A j \in 1..Len(B.features) :
                                        B.features[j].id # A.features[i].id})
            /\ A.features = Ten /\ B.features = TwoOfWhichOneShared =>
                  Len(out) = 9

C3_Witness ==
    /\ acq.applied
    /\ acq.include_dataset.features = Ten
    /\ acq.exclude_dataset.features = TwoOfWhichOneShared
    /\ Len(PartialFeatures(acq.partial)) = 9

----------------------------------------------------------------------------
(* Properties of the acquisition cycles and of the coverage loop *)

SentinelName == SentinelPlace.name

Returned == pc = "done"

AcquisitionReturned == pc = "acq" /\ acq.phase = "ret"

\* C2 (as stated): no feature of the collection returned by fetch_ggl_nearby
\* is a sentinel record of the exhausted-retry batch.
C2_NoSentinelReturned ==
    Returned =>
        \A i \in 1..Len(ret.dataset.features) :
            ret.dataset.features[i].name # SentinelName

NoRepeatedId(features) ==
    \A i, j \in 1..Len(features) :
        features[i].id = features[j].id => i = j

\* C5 (as stated): no dataset stored in the cache holds two records with the
\* same id.
C5_StoredIdsUnique ==
    \A id \in DOMAIN cache : NoRepeatedId(cache[id].features)

ExternalCalls(log) ==
    {k \in 1..Len(log) : log[k].ev \in {"call", "details"}}

\* C6 (as stated): an acquisition that finds the combined dataset an earlier
\* acquisition stored issues no external call and returns the features the
\* earlier acquisition returned.
C6_CachedAcquisition ==
    (AcquisitionReturned /\ acq.hit
        /\ acq.combined_dataset_id \in DOMAIN hist.first) =>
        /\ ExternalCalls(acq.log) = {}
        /\ acq.result.features = hist.first[acq.combined_dataset_id]

PartId(k) ==
    make_dataset_filename_part(req, acq.queries[k][1], acq.queries[k][2])

\* The features the union step holds for the k-th tuple, none when no dataset
\* was collected for it.
TupleFeatures(k) == Get(acq.datasets, PartId(k)).features

UnionStored ==
    /\ AcquisitionReturned
    /\ ~acq.hit
    /\ acq.result.features # <<>>

FirstRecord(features, x) ==
    features[CHOOSE j \in 1..Len(features) :
                /\ features[j].id = x
                /\ \A l \in 1 .. j - 1 : features[l].id # x]

Holders(x) == {k \in 1..Len(acq.queries) : x \in IdsOf(TupleFeatures(k))}

\* C4 (as stated): every id occurs once in the combined dataset and its record
\* is the one of the first tuple, in tuple order, whose dataset contains it.
C4_FirstInTupleOrder ==
    UnionStored =>
        LET c == cache[acq.combined_dataset_id].features
        IN  /\ NoRepeatedId(c)
            /\ \A i \in 1..Len(c) :
                  LET k == CHOOSE k \in Holders(c[i].id) :
                               \A m \in Holders(c[i].id) : k <= m
                  IN  c[i] = FirstRecord(TupleFeatures(k), c[i].id)

\* The category path collects the stored datasets during the scan and the
\* fetched ones afterwards; the keyword path collects in tuple order.
Fetched(k) == acq.path = "cat" /\ PartId(k) \in Keys(acq.missing_queries)

Before(k, m) == (~Fetched(k) /\ Fetched(m)) \/ (Fetched(k) = Fetched(m) /\ k <= m)

\* C4: every id occurs once in the combined dataset and its record is the one
\* of the first dataset that contains it, in the order the datasets were
\* collected: tuple order in the keyword path; in the category path the
\* datasets found in the cache in tuple order, then the fetched ones in tuple
\* order.
C4_FirstCollectedWins ==
    UnionStored =>
        LET c == cache[acq.combined_dataset_id].features
        IN  /\ NoRepeatedId(c)
            /\ \A i \in 1..Len(c) :
                  LET k == CHOOSE k \in Holders(c[i].id) :
                               \A m \in Holders(c[i].id) : Before(k, m)
                  IN  c[i] = FirstRecord(TupleFeatures(k), c[i].id)

C4_Witness ==
    /\ UnionStored
    /\ \E k, m \in 1..Len(acq.queries) :
          /\ k # m
          /\ P2a \in {TupleFeatures(k)[i] : i \in 1..Len(TupleFeatures(k))}
          /\ P2b \in {TupleFeatures(m)[i] : i \in 1..Len(TupleFeatures(m))}

\* The scenario of C7: full-data mode, a plan of three steps, the cycles of
\* steps 0 and 1 without features and the cycle of step 2 with BigCount (25)
\* features.
ThreeStepScenario ==
    /\ Returned
    /\ req.action = "full data"
    /\ Len(plan) = 3
    /\ hist.attempted = <<[step |-> 0, n |-> 0], [step |-> 1, n |-> 0],
                          [step |-> 2, n |-> BigCount]>>

ThreeStepOutcome(next) ==
    /\ hist.rectified = <<0, 1>>
    /\ plan = <<"skipped", "skipped", "success">>
    /\ hist.marked = <<[step |-> 2, has_features |-> TRUE]>>
    /\ ret.next_plan_index = next

\* C7 (as stated): in the three-step scenario steps 0 and 1 are rectified,
\* step 2 is marked success and the next step index is 2.
C7_NextIsTwo == ThreeStepScenario => ThreeStepOutcome(2)

\* C7: in the three-step scenario steps 0 and 1 are rectified, step 2 is
\* marked success and the next step index is 3, one past the step that
\* succeeded.
C7_NextIsThree == ThreeStepScenario => ThreeStepOutcome(3)

C7_Witness == ThreeStepScenario /\ ret.next_plan_index = 3

\* C8: the returned next step index is the greater of the index the last
\* rectification returned (0 when none ran) and the current step index plus
\* one, and exceeds the index of the step last attempted, also when the
\* rectification returned -1.
C8_NextIndex ==
    Returned =>
        /\ ret.next_plan_index =
              IF hist.rect_ret >= current_plan_index + 1
              THEN hist.rect_ret ELSE current_plan_index + 1
        /\ ret.next_plan_index > current_plan_index
        /\ hist.attempted # <<>>
        /\ ret.next_plan_index > hist.attempted[Len(hist.attempted)].step

C8_Witness ==
    /\ Returned
    /\ hist.rect_ret = 0 - 1
    /\ ret.next_plan_index = current_plan_index + 1

\* C9: an invocation never runs more than RangeLimit (30) acquisition cycles:
\* the cycle count stays within the limit and after the last allowed cycle
\* the loop is not entered again.
C9_AtMostThirtyCycles ==
    /\ cycles <= RangeLimit
    /\ pc = "loop" => cycles < RangeLimit

C9_Witness ==
    /\ Returned
    /\ cycles = RangeLimit
    /\ Len(hist.attempted) = RangeLimit
    /\ hist.rect_ret # 0 - 1

MissedBefore(k, id) ==
    \E j \in 1 .. k - 1 : acq.log[j].ev = "miss" /\ acq.log[j].id = id

AtomicOf(t, id) ==
    IF acq.path = "kw"
    THEN \/ /\ acq.queries[t][1] # <<>>
            /\ id = make_dataset_filename_part(req, acq.queries[t][1], <<>>)
         \/ /\ acq.queries[t][2] # <<>>
            /\ id = make_dataset_filename_part(req, <<>>, acq.queries[t][2])
    ELSE id = PartId(t)

\* C10: a search call for a fingerprint follows, in the same cycle, a missed
\* lookup of the combined fingerprint, a missed lookup of the partial
\* fingerprint of a tuple the term-set belongs to and a missed lookup of the
\* fingerprint itself; no fingerprint found in the cache is fetched.
C10_LookupsBeforeCall ==
    pc = "acq" =>
        \A k \in 1..Len(acq.log) :
            acq.log[k].ev = "call" =>
                /\ MissedBefore(k, acq.combined_dataset_id)
                /\ MissedBefore(k, acq.log[k].id)
                /\ \E t \in 1..Len(acq.queries) :
                      /\ AtomicOf(t, acq.log[k].id)
                      /\ MissedBefore(k, PartId(t))
                /\ \A j \in 1 .. k - 1 :
                      ~(acq.log[j].ev = "hit" /\ acq.log[j].id = acq.log[k].id)

C10_Witness ==
    /\ pc = "acq"
    /\ acq.path = "kw"
    /\ \E k \in 1..Len(acq.log), j \in 1..Len(acq.log) :
          /\ acq.log[k].ev = "call"
          /\ acq.log[j].ev = "hit"
          /\ j < k

SearchCalls(log) == {k \in 1..Len(log) : log[k].ev = "call"}

\* C11: within one keyword acquisition cycle no two text-search calls are
\* issued for the same atomic fingerprint, also when tuples share an include
\* or exclude term-set.
C11_OneCallPerFingerprint ==
    (pc = "acq" /\ acq.path = "kw") =>
        \A j, k \in SearchCalls(acq.log) :
            acq.log[j].id = acq.log[k].id => j = k

C11_Witness ==
    /\ pc = "acq"
    /\ acq.path = "kw"
    /\ Len(acq.queries) = 2
    /\ acq.queries[1][1] = acq.queries[2][1]
    /\ \E k \in SearchCalls(acq.log) :
          acq.log[k].id = make_dataset_filename_part(req, acq.queries[1][1], <<>>)
    /\ \A t \in 1..2 : \E j \in 1..Len(acq.log) :
          acq.log[j].ev = "miss" /\ acq.log[j].id = PartId(t)

----------------------------------------------------------------------------
(* The union step, applied to bounded lists of datasets *)

MaxDatasets == 3

UnionInputs ==
    {None} \cup {new_ggl_to_boxmap(f) :
                    f \in {<<P1, P2a>>, <<P2b, P3>>, <<P3>>,
                           <<SentinelPlace, SentinelPlace>>,
                           <<EmptyDetails, P1>>}}

\* A datasets dict with the positions as keys.
Keyed(values) == [i \in 1..Len(values) |-> <<i, values[i]>>]

UnionStart ==
    /\ rs = Idle
    /\ cache = <<>>
    /\ place_details = <<>>
    /\ plan = <<>>
    /\ req = <<>>
    /\ pc = "idle"
    /\ cycles = 0
    /\ current_plan_index = 0
    /\ next_plan_index = 0
    /\ next_page_token = 0
    /\ dataset = <<>>
    /\ ret = <<>>
    /\ hist = <<>>
    /\ invocations = 0
    /\ \E n \in 1..MaxDatasets :
          acq \in [values : [1..n -> UnionInputs], applied : {FALSE},
                   combined : {None}, permuted : {None}, repeated : {None}]

\* Lines 213-237 / 303-327 on the datasets, on a permutation of them and on
\* the datasets followed by one of them under a further key.
ApplyUnion ==
    /\ ~acq.applied
    /\ \E order \in Permutations(1..Len(acq.values)), i \in 1..Len(acq.values) :
          acq' = [acq EXCEPT
                    !.applied = TRUE,
                    !.combined = Combine(Keyed(acq.values)),
                    !.permuted =
                        Combine([k \in 1..Len(acq.values) |->
                                    <<order[k], acq.values[order[k]]>>]),
                    !.repeated =
                        Combine(Append(Keyed(acq.values),
                                       <<Len(acq.values) + 1, acq.values[i]>>))]
    /\ UNCHANGED ComposeFrame

SpecUnion == UnionStart /\ [][ApplyUnion]_vars

\* C12: the combined datasets of a list of datasets and of any permutation of
\* it have the same set of ids, and the union with a dataset that is already
\* included gives the same combined dataset.
C12_UnionMembership ==
    acq.applied =>
        /\ IdsOf(acq.permuted.features) = IdsOf(acq.combined.features)
        /\ acq.repeated = acq.combined

C12_Witness ==
    /\ acq.applied
    /\ Len(acq.values) = MaxDatasets
    /\ acq.permuted.features # acq.combined.features
    /\ IdsOf(acq.permuted.features) = IdsOf(acq.combined.features)
    /\ \E i, j \in 1..Len(acq.combined.features) :
          /\ acq.combined.features[i].id = acq.permuted.features[j].id
          /\ acq.combined.features[i] # acq.permuted.features[j]

----------------------------------------------------------------------------
(* Further properties of fetch_ggl_nearby and query_ggl *)

WellFormed(d) ==
    /\ DOMAIN d = {"type", "features", "properties"}
    /\ d.type = "FeatureCollection"
    /\ DOMAIN d.features = 1..Len(d.features)
    /\ \A i \in 1..Len(d.features) : "name" \in DOMAIN d.features[i]
    /\ d.properties \subseteq PropertyNames

\* The acquisition is at a phase for which its path has a step; the steps
\* between lookup and return have no other guard than the path and the phase.
StepOfAcquisition ==
    /\ acq.path \in {"kw", "cat"}
    /\ acq.phase = "ret" => ENABLED AfterQuery
    /\ acq.phase = "fetch" => ENABLED (KwFetchStep \/ CatFetchStep)
    /\ acq.phase \in
          {"lookup", "scan", "fetch", "store", "union", "ret"}
              \cup (IF acq.path = "kw" THEN {"compose"} ELSE {})

\* C13: in sample mode, whatever the search type and whatever the provider
\* answers, an invocation always has a next step until it returns, it returns
\* after one cycle, and what it returns is a feature collection with a type,
\* a list of features and a property manifest.
C13_SampleWellFormed ==
    req.action = "sample" =>
        /\ pc = "loop" => ENABLED LoopTop
        /\ pc = "acq" => StepOfAcquisition
        /\ pc = "exit" => ENABLED Finish
        /\ Returned => (WellFormed(ret.dataset) /\ cycles = 1)

C13_Witness ==
    /\ req.action = "sample"
    /\ Returned
    /\ ret.dataset.features = <<>>
    /\ \E id \in DOMAIN cache : cache[id].features = SentinelBatch

TextSearchIds ==
    LET tuples == text_search_query_sequence(req.boolean_query)
    IN  UNION {{make_dataset_filename_part(req, tuples[t][1], tuples[t][2]),
                make_dataset_filename_part(req, tuples[t][1], <<>>),
                make_dataset_filename_part(req, <<>>, tuples[t][2])} :
               t \in 1..Len(tuples)}

DefaultReturned == req.search_type = "default" /\ AcquisitionReturned

\* C14 (as stated): with search type "default" both the category and the
\* keyword acquisition have run when query_ggl returns: the keyword tuples
\* were looked up as well as the category tuples.
C14_DefaultRunsBoth ==
    (DefaultReturned /\ ~acq.hit) =>
        /\ \E k \in 1..Len(acq.log) : acq.log[k].id = PartId(1)
        /\ \E k \in 1..Len(acq.log) : acq.log[k].id \in TextSearchIds

\* C14: with search type "default" query_ggl runs the category acquisition
\* only: the tuples are those of the category query, every one is looked up,
\* no fingerprint of a text-search tuple is looked up or fetched, and the
\* dataset returned is the union of the category datasets.
C14_DefaultRunsCategory ==
    DefaultReturned =>
        /\ acq.path = "cat"
        /\ acq.queries = optimize_query_sequence(req.boolean_query)
        /\ \A k \in 1..Len(acq.log) : acq.log[k].id \notin TextSearchIds
        /\ ~acq.hit =>
              /\ \A t \in 1..Len(acq.queries) :
                    \E k \in 1..Len(acq.log) : acq.log[k].id = PartId(t)
              /\ acq.result = Combine(acq.datasets)

C14_Witness ==
    /\ DefaultReturned
    /\ ~acq.hit
    /\ acq.result.features # <<>>
    /\ SearchCalls(acq.log) # {}

KeywordReturned == AcquisitionReturned /\ acq.path = "kw"

NoFeatureHasId(features) == \A i \in 1..Len(features) : features[i].id = NoId

EveryFeatureHasId(features) == \A i \in 1..Len(features) : features[i].id # NoId

\* C15 (as stated): with ids_and_location_only set, no feature returned by the
\* keyword acquisition has an id.
C15_IdStrippedWhenIdsOnly ==
    (KeywordReturned /\ req.ids_and_location_only) =>
        NoFeatureHasId(acq.result.features)

\* C15: with ids_and_location_only set, every feature returned by the keyword
\* acquisition has its id; the id is removed when ids_and_location_only is
\* not set, from the features of an acquisition that built and stored the
\* combined dataset.
C15_IdKeptWhenIdsOnly ==
    KeywordReturned =>
        /\ req.ids_and_location_only => EveryFeatureHasId(acq.result.features)
        /\ (~req.ids_and_location_only /\ ~acq.hit) =>
              NoFeatureHasId(acq.result.features)

C15_Witness ==
    /\ KeywordReturned
    /\ req.ids_and_location_only
    /\ ~acq.hit
    /\ Len(acq.result.features) >= 2
    /\ \E k \in 1..Len(acq.log) :
          acq.log[k].ev = "store" /\ acq.log[k].id = acq.combined_dataset_id

----------------------------------------------------------------------------
(* Further properties of the retry state machine *)

PostCall == rs.kind = "post"

\* C16: a POST call whose attempts on the primary and on the legacy protocol
\* all get a non-200 status never leaves its loop without a return value, and
\* returns exactly 20 records that each have the id "n/a" and the placeholder
\* name.
C16_SentinelBatch ==
    (PostCall /\ AllFailed(rs)) =>
        /\ ~rs.done => rs.retry_count < max_retries
        /\ rs.done =>
              /\ Len(rs.result) = 20
              /\ \A i \in 1..Len(rs.result) :
                    /\ rs.result[i].id = NA
                    /\ rs.result[i].name = "Faild to retreive data"

C16_Witness ==
    /\ PostCall
    /\ rs.done
    /\ AllFailed(rs)
    /\ LegacyCount(rs) > 0
    /\ {AttemptsOf(rs)[i].status : i \in 1..Len(AttemptsOf(rs))} = {429, 500}
    /\ Len(rs.result) = SentinelCount

\* C17: within one POST call the attempts on the primary protocol all come
\* before the attempts on the legacy protocol (one switch at most, never
\* back), and a legacy attempt is made only after max_retries (3) failed
\* primary attempts.
C17_OneSwitch ==
    PostCall =>
        LET a == AttemptsOf(rs)
        IN  /\ \A i, j \in 1..Len(a) : (i < j /\ a[i].legacy) => a[j].legacy
            /\ \A i \in 1..Len(a) :
                  a[i].legacy =>
                      /\ i > max_retries
                      /\ \A k \in 1..max_retries :
                            ~a[k].legacy /\ a[k].status # 200
            /\ rs.use_legacy =>
                  /\ Len(a) >= max_retries
                  /\ \A k \in 1..max_retries : a[k].status # 200
            /\ ~rs.use_legacy => PrimaryCount(rs) = Len(a)

C17_Witness ==
    /\ PostCall
    /\ rs.done
    /\ ~rs.sentinel
    /\ PrimaryCount(rs) = 3
    /\ LegacyCount(rs) = 2
    /\ AttemptsOf(rs)[5].status = 200

AnyCall == rs.kind \in {"post", "get"}

\* The positions of the backoff sleeps in the trace: a sleep right after an
\* attempt that is not the pacing sleep of the next attempt.
BackoffSleeps ==
    {p \in 2..Len(rs.trace) :
        /\ rs.trace[p].ev = "sleep"
        /\ rs.trace[p - 1].ev = "attempt"
        /\ p = Len(rs.trace) \/ rs.trace[p + 1].ev = "sleep"}

AttemptPositions == {p \in 1..Len(rs.trace) : rs.trace[p].ev = "attempt"}

\* The number of the attempt at position p among the attempts of its protocol.
AttemptNumber(p) ==
    Cardinality({q \in AttemptPositions :
                    q <= p /\ rs.trace[q].legacy = rs.trace[p].legacy})

\* C18 (as stated): the backoff slept after the k-th attempt of a protocol is
\* MIN_DELAY * 2^k, on the legacy protocol as on the primary one, and no
\* attempt number exceeds 3.
C18_BackoffRestarts ==
    AnyCall =>
        /\ \A p \in BackoffSleeps :
              rs.trace[p].d = MIN_DELAY * (2 ^ AttemptNumber(p - 1))
        /\ \A p \in AttemptPositions : AttemptNumber(p) <= 3

\* The value of retry_count after the failure of the attempt at position p.
CountAfter(p) == AttemptNumber(p) + (IF rs.trace[p].legacy THEN 1 ELSE 0)

\* C18: the backoff slept after a failed attempt is MIN_DELAY * 2^k with k the
\* value of retry_count after the failure: the attempt number on the primary
\* protocol and in make_get_api_call, the attempt number plus one on the
\* legacy protocol, where the count restarts at 1; a backoff is slept exactly
\* after the failures that leave k below 3, and no attempt number exceeds 3.
C18_BackoffByRetryCount ==
    AnyCall =>
        /\ \A p \in BackoffSleeps :
              /\ rs.trace[p - 1].status # 200
              /\ rs.trace[p].d = MIN_DELAY * (2 ^ CountAfter(p - 1))
        /\ \A p \in AttemptPositions :
              /\ AttemptNumber(p) <= 3
              /\ CountAfter(p) <= max_retries
              /\ (p + 1 \in BackoffSleeps) =
                    (rs.trace[p].status # 200 /\ CountAfter(p) < max_retries)

C18_Witness ==
    /\ PostCall
    /\ LegacyCount(rs) = 2
    /\ \E p \in BackoffSleeps :
          /\ rs.trace[p - 1].legacy
          /\ rs.trace[p].d = MIN_DELAY * 4

\* C19: every attempt of a POST or GET call, the first, the retries and the
\* legacy ones, comes right after a sleep of MIN_DELAY, and that sleep is a
\* further one when a backoff was slept after the attempt before.
C19_PacingBeforeAttempt ==
    AnyCall =>
        \A p \in AttemptPositions :
            /\ p > 1
            /\ rs.trace[p - 1] = Sleep(MIN_DELAY)
            /\ p - 1 \notin BackoffSleeps
            /\ (p > 2 /\ rs.trace[p - 2].ev = "sleep") =>
                  (p - 2 \in BackoffSleeps /\ rs.trace[p - 2].d > MIN_DELAY)

C19_Witness ==
    /\ AnyCall
    /\ \E p \in AttemptPositions :
          /\ p > 3
          /\ rs.trace[p - 1] = Sleep(MIN_DELAY)
          /\ rs.trace[p - 2] = Sleep(MIN_DELAY * 2)
    /\ \E p \in AttemptPositions :
          /\ rs.trace[p].legacy
          /\ rs.trace[p - 1] = Sleep(MIN_DELAY)
          /\ rs.trace[p - 2].ev = "attempt"

\* C20: a POST call whose first j attempts (j < 3) fail and whose next attempt
\* gets 200 ends with that attempt, the (j+1)-th: it is not over before, makes
\* no attempt after, has not switched to the legacy protocol, and returns
\* records of the provider and no sentinel.
C20_TransientFailure ==
    PostCall =>
        LET a == AttemptsOf(rs)
            n == Len(a)
        IN  /\ \A i \in 1 .. n - 1 : a[i].status # 200
            /\ (n < max_retries /\ AllFailed(rs)) =>
                  (~rs.done /\ ~rs.use_legacy)
            /\ (n \in 1..max_retries /\ a[n].status = 200) =>
                  /\ rs.done
                  /\ ~rs.sentinel
                  /\ ~rs.use_legacy
                  /\ PrimaryCount(rs) = n
                  /\ rs.result \in Batches

C20_Witness ==
    /\ PostCall
    /\ rs.done
    /\ Len(AttemptsOf(rs)) = 3
    /\ AttemptsOf(rs)[1].status = 429
    /\ AttemptsOf(rs)[2].status = 500
    /\ AttemptsOf(rs)[3].status = 200
    /\ rs.result = <<P1, P2a>>

----------------------------------------------------------------------------
(* Properties of the coverage loop: rectification and marking *)

FullData == req.action = "full data"

LoopLeft == pc = "exit"

OnlySentinels(features) ==
    \A i \in 1..Len(features) : features[i].name = SentinelName

Last(seq) == seq[Len(seq)]

\* C21 (as stated): in full-data mode a cycle whose features are sentinel
\* records only counts as a cycle without features: the loop is not left
\* before the current step has been passed to rectify_plan.
C21_SentinelCycleIsEmpty ==
    (FullData /\ LoopLeft /\ OnlySentinels(dataset.features)) =>
        /\ hist.rectified # <<>>
        /\ Last(hist.rectified) = current_plan_index

\* C22 (as stated): no dataset in the cache, atomic, partial or combined,
\* holds a record with the sentinel id "n/a".
C22_NoSentinelStored ==
    \A id \in DOMAIN cache :
        \A i \in 1..Len(cache[id].features) : cache[id].features[i].id # NA

Occurrences(seq, x) == Cardinality({i \in DOMAIN seq : seq[i] = x})

AfterLoopFilters(features) ==
    LET kept == ValidFeatures(req, FilterSentinels(features))
    IN  IF req.include_only_sub_properties
        THEN select_sub_properties([features |-> kept]).features
        ELSE kept

\* C24: in full-data mode, when the last cycle of an invocation yielded
\* between 1 and 19 features, rectify_plan has been called exactly once for
\* that step when the invocation returns, every earlier cycle of the
\* invocation was empty and that cycle was the last one, and the features of
\* that cycle are the ones marked and filtered into the returned dataset.
C24_ShortCycleRectifiedOnce ==
    (FullData /\ Returned /\ Len(acq.result.features) \in 1..MinUseful - 1) =>
        /\ Occurrences(hist.rectified, current_plan_index) = 1
        /\ Len(hist.attempted) = cycles
        /\ Last(hist.attempted) = [step |-> current_plan_index,
                                   n |-> Len(acq.result.features)]
        /\ \A i \in 1..Len(hist.attempted) - 1 : hist.attempted[i].n = 0
        /\ hist.marked =
              <<[step |-> current_plan_index,
                 has_features |-> FilterSentinels(acq.result.features) # <<>>]>>
        /\ ret.dataset.features = AfterLoopFilters(acq.result.features)

C24_Witness ==
    /\ FullData
    /\ Returned
    /\ Len(acq.result.features) \in 1..MinUseful - 1
    /\ cycles = 2
    /\ hist.rectified = <<0, 1>>
    /\ ret.dataset.features # <<>>

WithoutSentinels(features) ==
    SelectSeq(features, LAMBDA feature : feature.name # SentinelName)

\* C25 (as stated): when a full-data invocation returns, mark_plan_result has
\* been called exactly once, for the step last attempted, with has_features
\* true exactly when the features of the last cycle without the sentinel
\* records are not empty, and the steps rectified earlier in the invocation
\* are left skipped.
C25_MarkedOnceAfterStrip ==
    (FullData /\ Returned) =>
        /\ Len(hist.marked) = 1
        /\ hist.marked[1].step = Last(hist.attempted).step
        /\ hist.marked[1].has_features =
              (WithoutSentinels(acq.result.features) # <<>>)
        /\ \A i \in 1..Len(hist.rectified) :
              hist.rectified[i] # current_plan_index =>
                  plan[hist.rectified[i] + 1] = "skipped"

(* Properties of the details lookup *)
DetailsCalled(log, from) ==
    {log[k].id : k \in {j \in from + 1 .. Len(log) : log[j].ev = "details"}}

DetailsCallsOf(log, from, place_id) ==
    Cardinality({k \in from + 1 .. Len(log) :
                    log[k].ev = "details" /\ log[k].id = place_id})

DetailsAnswers(results) ==
    UNION {{results[i][2][k] : k \in 1..Len(results[i][2])} :
              i \in 1..Len(results)}

----------------------------------------------------------------------------
(* Two concurrent keyword acquisitions of one request over one cache.  Every
   await of fetch_text_search_ggl_maps_api is a point where the other
   acquisition may run: after the combined lookup, after the lookups of one
   tuple, inside asyncio.gather, after every store. *)

Acquirers == {1, 2}
Terms == {"tea", "drive"}

\* The provider answers a text query with the same records whoever asks, and
\* it holds one record per place id.
OneRecordPerPlace(answers) ==
    \A x, y \in UNION {{a[k] : k \in 1..Len(a)} : a \in answers} :
        x.id = y.id => x = y

Providers ==
    {p \in [Terms -> PostOutcomes] : OneRecordPerPlace({p[t] : t \in Terms})}

\* Lines 140-144: the text of the query of one missing term-set.
TextQuery(inc_exc) ==
    IF inc_exc[1] # <<>> THEN inc_exc[1][1] ELSE inc_exc[2][1]

QueryTasksRecheck(a, c) ==
    SelectSeq(a.missing_queries, LAMBDA m : ~Truthy(load_dataset(c, m[1])))

\* Lines 138-146: one coroutine per missing query; the cache is not read again.
QueryTasks(a, c) == a.missing_queries

GatherDoneAny(a) == \E t \in 1..Len(a.responses) : a.responses[t].done

\* Line 148: asyncio.gather returns when every task has a result.
GatherDone(a) == \A t \in 1..Len(a.responses) : a.responses[t].done

\* Lines 150-153: the answers as a dict in the order of the tasks.
RECURSIVE Collected(_, _, _)
Collected(d, tasks, responses) ==
    IF tasks = <<>> THEN d
    ELSE Collected(Put(d, Head(tasks)[1], Head(responses).results),
                   Tail(tasks), Tail(responses))

PairRequests ==
    {r \in [action : {"sample"},
            search_type : {"keyword_search"},
            ids_and_location_only : BOOLEAN,
            include_rating_info : {FALSE},
            include_only_sub_properties : {FALSE},
            boolean_query : Queries,
            page_token : {0},
            geo : {0}] : TRUE}

PairAcq(r) ==
    AcqInit("kw", r, text_search_query_sequence(r.boolean_query))
        @@ [k |-> 1, query_tasks |-> <<>>, responses |-> <<>>]

\* The acquisition run alone from cache c: lines 64-249 without interleaving.
AcquireAlone(c, r, provider) ==
    LET a1 == LookupCombined(PairAcq(r), c)
        a2 == KwScan(a1, c, r, a1.queries)
        answers == [i \in 1..Len(a2.missing_queries) |->
                       provider[TextQuery(a2.missing_queries[i][2])]]
        f == KwFetch(<<a2, <<>>>>, r, 1, answers, {})
        s == StoreResults(<<f[1], c>>, f[1].all_missing_query_results,
                          "separte_parts_datasets")
        m == KwCompose(s, r, a1.queries)
    IN  IF a1.hit THEN c ELSE KwUnion(m[1], m[2], r)[2]

\* The cache is empty, or holds the atomic dataset of "tea" from before.
StartCaches(r, provider) ==
    {<<>>} \cup
    {process_and_store_to_db(<<>>,
         make_dataset_filename_part(r, <<"tea">>, <<>>), provider[t]).cache :
        t \in {x \in {"tea"} : provider[x] # <<>>}}

PairFrame == <<rs, plan, req, pc, cycles, current_plan_index, next_plan_index,
               next_page_token, dataset, ret, hist, invocations>>

PairInit ==
    /\ rs = Idle
    /\ place_details = <<>>
    /\ plan = <<>>
    /\ req \in PairRequests
    /\ pc = "pair"
    /\ cycles = 0
    /\ current_plan_index = 0
    /\ next_plan_index = 0
    /\ next_page_token = 0
    /\ dataset = None
    /\ ret = <<>>
    /\ invocations = 0
    /\ acq = [i \in Acquirers |-> PairAcq(req)]
    /\ \E provider \in Providers :
          \E c \in StartCaches(req, provider) :
             /\ cache = c
             /\ hist = [provider |-> provider, cache0 |-> c, failed |-> {}]

\* Lines 73-80.
PairLookup(i) ==
    /\ acq[i].phase = "lookup"
    /\ acq' = [acq EXCEPT ![i] = LookupCombined(@, cache)]
    /\ UNCHANGED <<PairFrame, cache, place_details>>

\* Lines 86-132: the lookups of the k-th tuple.
PairScan(i) ==
    /\ acq[i].phase = "scan"
    /\ LET a == KwScan(acq[i], cache, req, <<acq[i].queries[acq[i].k]>>)
           last == acq[i].k = Len(acq[i].queries)
       IN  acq' = [acq EXCEPT ![i] =
                     [a EXCEPT !.k = IF last THEN 1 ELSE @ + 1,
                               !.phase = IF ~last THEN "scan"
                                         ELSE IF a.missing_queries # <<>>
                                         THEN "fetch" ELSE "compose"]]
    /\ UNCHANGED <<PairFrame, cache, place_details>>

\* Lines 138-148: the coroutines are created and gather starts them all; each
\* issues its POST.
PairGather(i) ==
    /\ acq[i].phase = "fetch"
    /\ LET tasks == QueryTasks(acq[i], cache)
       IN  acq' = [acq EXCEPT ![i] =
                     [@ EXCEPT !.phase = "await",
                               !.query_tasks = tasks,
                               !.responses =
                                   [t \in 1..Len(tasks) |->
                                       [done |-> FALSE, results |-> <<>>]],
                               !.log = @ \o [t \in 1..Len(tasks) |->
                                                Called(tasks[t][1])]]]
    /\ UNCHANGED <<PairFrame, cache, place_details>>

\* One task of the gather resolves (single_ggl_text_call returns).
PairResolve(i) ==
    /\ acq[i].phase = "await"
    /\ \E t \in 1..Len(acq[i].query_tasks) :
          /\ ~acq[i].responses[t].done
          /\ LET posted == hist.provider[TextQuery(acq[i].query_tasks[t][2])]
                 call == single_ggl_text_call(req, posted, place_details, {})
             IN  /\ acq' = [acq EXCEPT ![i].responses[t] =
                              [done |-> TRUE, results |-> call.results]]
                 /\ place_details' = call.place_details
    /\ UNCHANGED <<PairFrame, cache>>

\* Lines 148-153: gather returns and the answers are collected.
PairCollect(i) ==
    /\ acq[i].phase = "await"
    /\ GatherDone(acq[i])
    /\ acq' = [acq EXCEPT ![i] =
                 [@ EXCEPT !.phase = "store",
                           !.all_missing_query_results =
                               Collected(<<>>, acq[i].query_tasks,
                                         acq[i].responses)]]
    /\ UNCHANGED <<PairFrame, cache, place_details>>

\* Lines 155-162: the k-th answer is stored.
PairStore(i) ==
    /\ acq[i].phase = "store"
    /\ LET results == acq[i].all_missing_query_results
           st == IF acq[i].k <= Len(results)
                 THEN StoreResults(<<acq[i], cache>>, <<results[acq[i].k]>>,
                                   "separte_parts_datasets")
                 ELSE <<acq[i], cache>>
           last == acq[i].k >= Len(results)
       IN  /\ acq' = [acq EXCEPT ![i] =
                        [st[1] EXCEPT !.k = IF last THEN 1 ELSE @ + 1,
                                      !.phase = IF last THEN "compose"
                                                ELSE "store"]]
           /\ cache' = st[2]
    /\ UNCHANGED <<PairFrame, place_details>>

\* Lines 164-211: the partial dataset of the k-th tuple.
PairCompose(i) ==
    /\ acq[i].phase = "compose"
    /\ LET st == KwCompose(<<acq[i], cache>>, req, <<acq[i].queries[acq[i].k]>>)
           last == acq[i].k = Len(acq[i].queries)
       IN  /\ acq' = [acq EXCEPT ![i] =
                        [st[1] EXCEPT !.k = IF last THEN 1 ELSE @ + 1,
                                      !.phase = IF last THEN "union"
                                                ELSE "compose"]]
           /\ cache' = st[2]
    /\ UNCHANGED <<PairFrame, place_details>>

\* Lines 213-249.
PairUnion(i) ==
    /\ acq[i].phase = "union"
    /\ LET st == KwUnion(acq[i], cache, req)
       IN  /\ acq' = [acq EXCEPT ![i] = st[1]]
           /\ cache' = st[2]
    /\ UNCHANGED <<PairFrame, place_details>>

RaiseAsEmpty(a) ==
    [a EXCEPT !.phase = "ret",
              !.result = [type |-> "FeatureCollection", features |-> <<>>,
                          properties |-> {}]]

\* Lines 55-61, 73-90 and every other await of the cache: no handler encloses
\* it, so what it raises ends the acquisition and reaches the caller.
Raise(a) ==
    [a EXCEPT !.phase = "raised",
              !.log = Append(@, [ev |-> "raise", id |-> a.combined_dataset_id])]

\* The steps of an acquisition that read or write the cache; a fetch reads and
\* writes the details store when ids_and_location_only is set.
TouchesStorage(a, r) ==
    \/ a.phase \in {"lookup", "scan", "store", "compose"}
    \/ a.phase = "union" /\ Combine(a.datasets).features # <<>>
    \/ a.phase = "await" /\ r.ids_and_location_only /\ ~GatherDone(a)

\* The cache or the details store raises in the step the acquisition is at.
PairStorageRaises(i) ==
    /\ TouchesStorage(acq[i], req)
    /\ acq' = [acq EXCEPT ![i] = Raise(@)]
    /\ hist' = [hist EXCEPT !.failed = @ \cup {i}]
    /\ UNCHANGED <<rs, plan, req, pc, cycles, current_plan_index,
                   next_plan_index, next_page_token, dataset, ret,
                   invocations, cache, place_details>>

PairNext ==
    \E i \in Acquirers :
        \/ PairLookup(i)
        \/ PairScan(i)
        \/ PairGather(i)
        \/ PairResolve(i)
        \/ PairCollect(i)
        \/ PairStore(i)
        \/ PairCompose(i)
        \/ PairUnion(i)
        \/ PairStorageRaises(i)

SpecPair == PairInit /\ [][PairNext]_vars

(* Properties of the concurrent acquisitions *)
PastGather(a) ==
    /\ ~a.hit
    /\ a.missing_queries # <<>>
    /\ a.phase \in {"store", "compose", "union", "ret"}

PastStore(a) ==
    /\ ~a.hit
    /\ a.missing_queries # <<>>
    /\ a.phase \in {"compose", "union", "ret"}

HasEvent(a, e) == \E j \in 1..Len(a.log) : a.log[j] = e

\* What single_ggl_text_call resolves to for a missing query.
AnswerOf(m) ==
    single_ggl_text_call(req, hist.provider[TextQuery(m[2])], <<>>, {}).results

\* The t-th fetch has resolved and its POST had degraded to sentinels.
Degraded(a, t) ==
    /\ a.responses[t].done
    /\ hist.provider[TextQuery(a.query_tasks[t][2])] = SentinelBatch

Composed(a, tuple) ==
    LET p == Reconstruct(
                 Resolve(a, cache, make_dataset_filename_part(req, tuple[1], <<>>)),
                 Resolve(a, cache, make_dataset_filename_part(req, <<>>, tuple[2])))
    IN  p.assigned =>
            Get(a.datasets,
                make_dataset_filename_part(req, tuple[1], tuple[2])) = p.value

\* C27: in every acquisition, once a fetch has resolved every missing query
\* has been launched; nothing of the cycle is stored or composed before every
\* launched fetch has resolved; a fetch still running can resolve after
\* another has degraded to sentinels, every fetch resolves to the provider's
\* answer, and every non-empty answer is stored and composed, also next to a
\* fetch that degraded to sentinels.
C27_GatherBarrier ==
    \A i \in Acquirers :
        LET a == acq[i]
        IN  /\ a.phase = "await" =>
                  /\ a.query_tasks = a.missing_queries
                  /\ \A t \in 1..Len(a.query_tasks) :
                        HasEvent(a, Called(a.query_tasks[t][1]))
                  /\ (\E t, u \in 1..Len(a.responses) :
                         /\ Degraded(a, t)
                         /\ ~a.responses[u].done)
                        => ENABLED PairResolve(i)
            /\ a.phase \in {"fetch", "await"} =>
                  /\ \A j \in 1..Len(a.log) : a.log[j].ev # "store"
                  /\ a.datasets = <<>>
            /\ PastGather(a) =>
                  /\ Len(a.responses) = Len(a.missing_queries)
                  /\ \A t \in 1..Len(a.responses) :
                        /\ a.responses[t].done
                        /\ a.phase = "store" =>
                              a.responses[t].results =
                                  AnswerOf(a.missing_queries[t])
                        /\ Get(a.all_missing_query_results,
                               a.missing_queries[t][1]) = a.responses[t].results
            /\ PastStore(a) =>
                  \A t \in 1..Len(a.missing_queries) :
                     LET id == a.missing_queries[t][1]
                         format_response ==
                             new_ggl_to_boxmap(a.responses[t].results)
                     IN  a.responses[t].results # <<>> =>
                            /\ HasEvent(a, Stored(id))
                            /\ Get(a.separte_parts_datasets, id) = format_response
                            /\ load_dataset(cache, id) = format_response
            /\ (~a.hit /\ a.phase \in {"union", "ret"}) =>
                  \A k \in 1..Len(a.queries) : Composed(a, a.queries[k])

C27_Witness ==
    \E i \in Acquirers :
        /\ acq[i].phase = "ret"
        /\ ~acq[i].hit
        /\ \E t, u \in 1..Len(acq[i].responses) :
              /\ acq[i].responses[t].results = SentinelBatch
              /\ acq[i].responses[u].results = <<P1, P2a>>
        /\ \E k \in 1..Len(acq[i].result.features) :
              acq[i].result.features[k].name = "a"

Launched(a) ==
    \/ a.phase \in {"await", "store", "compose", "union"}
    \/ a.phase = "ret" /\ ~a.hit

\* C28: nothing excludes one acquisition from the other: an acquisition that
\* found a fingerprint missing can always start its fetches, and it issues the
\* external call for every fingerprint it found missing, whatever the other
\* acquisition has called or stored in the meantime; so both may call for the
\* same fingerprint (the witness).
C28_NoMutualExclusion ==
    \A i \in Acquirers :
        /\ acq[i].phase = "fetch" => ENABLED PairGather(i)
        /\ Launched(acq[i]) =>
              \A t \in 1..Len(acq[i].missing_queries) :
                 LET id == acq[i].missing_queries[t][1]
                 IN  /\ HasEvent(acq[i], [ev |-> "miss", id |-> id])
                     /\ HasEvent(acq[i], Called(id))

C28_Witness ==
    /\ make_dataset_filename(req) \notin DOMAIN hist.cache0
    /\ \E id \in {acq[1].missing_queries[t][1] :
                     t \in 1..Len(acq[1].missing_queries)} :
          \A i \in Acquirers :
             /\ HasEvent(acq[i], [ev |-> "miss",
                                  id |-> make_dataset_filename(req)])
             /\ HasEvent(acq[i], [ev |-> "miss", id |-> id])
             /\ HasEvent(acq[i], Called(id))

\* C29: when both acquisitions have returned, the cache holds under every
\* fingerprint (atomic, partial, combined) the dataset one acquisition run
\* alone from the same cache would have left there, and nothing else.
C29_SameAsSequential ==
    (\A i \in Acquirers : acq[i].phase = "ret") =>
        cache = AcquireAlone(hist.cache0, req, hist.provider)

C29_Witness ==
    /\ \A i \in Acquirers :
          /\ acq[i].phase = "ret"
          /\ ~acq[i].hit
          /\ HasEvent(acq[i], Stored(make_dataset_filename(req)))
          /\ \E id \in DOMAIN cache :
                id.kind = "part" /\ id.exc # <<>> /\ HasEvent(acq[i], Stored(id))
    /\ Len(load_dataset(cache, make_dataset_filename(req)).features) > 1

(* Properties of the stored partial datasets *)
Composing ==
    /\ pc = "acq"
    /\ acq.path = "kw"
    /\ ~acq.hit
    /\ acq.phase \in {"union", "ret"}

PartialOf(tuple) ==
    Get(acq.datasets, make_dataset_filename_part(req, tuple[1], tuple[2]))

\* C30 (as stated): after the composition of a keyword cycle that did not
\* return the stored combined dataset, the cache holds every non-empty
\* partial dataset under the partial fingerprint of its tuple.
C30_PartialStored ==
    Composing =>
        \A k \in 1..Len(acq.queries) :
            PartialOf(acq.queries[k]).features # <<>> =>
                load_dataset(cache,
                    make_dataset_filename_part(req, acq.queries[k][1],
                                               acq.queries[k][2]))
                  = PartialOf(acq.queries[k])

(* Properties of the category path *)
CategoryFetched ==
    /\ pc = "acq"
    /\ acq.path = "cat"
    /\ ~acq.hit
    /\ acq.phase \in {"store", "union", "ret"}

CallsFor(log, id) ==
    Cardinality({j \in 1..Len(log) : log[j].ev = "call" /\ log[j].id = id})

NoDetailsCall(log) == \A j \in 1..Len(log) : log[j].ev # "details"

\* C31 (as stated): in a category cycle every fingerprint found missing has
\* exactly one category-search call, and no place-details call is made.
C31_OneCategoryCallPerFingerprint ==
    CategoryFetched =>
        /\ \A id \in Keys(acq.missing_queries) : CallsFor(acq.log, id) = 1
        /\ NoDetailsCall(acq.log)

(* Properties of storage failures *)
Raises(a) == {j \in 1..Len(a.log) : a.log[j].ev = "raise"}

NotFiltered(features) ==
    IF req.include_only_sub_properties
    THEN select_sub_properties([features |-> features]).features
    ELSE features

HasPhoto(f) == f.photos > 0

Popular(f) == f.popularity_score > 100

KeptAsStated(f) ==
    IF req.include_rating_info
    THEN f.user_ratings_total > 3 \/ f.phone # ""
    ELSE HasPhoto(f) \/ Popular(f)

KeptWithPhotosLink(f) ==
    IF req.include_rating_info
    THEN f.user_ratings_total > 3 \/ f.phone # ""
    ELSE HasPhoto(f) \/ f.photosUri # "" \/ Popular(f)

Stripped == FilterSentinels(acq.result.features)

Fetched34 ==
    /\ pc = "acq"
    /\ ~acq.hit
    /\ \/ acq.path = "kw" /\ acq.phase \in {"compose", "union", "ret"}
       \/ acq.path = "cat" /\ acq.phase \in {"union", "ret"}

\* C34: every dataset in the cache has at least one feature; after the
\* storing of a cycle a fingerprint whose queries gave no records has no cache
\* entry, nor has the combined fingerprint of a cycle that returned no
\* feature; and a fingerprint called in an earlier invocation and found
\* missing again is called again.
C34_NoEmptyDatasetStored ==
    /\ \A id \in DOMAIN cache : Len(cache[id].features) >= 1
    /\ Fetched34 =>
          \A id \in Keys(acq.all_missing_query_results) :
             (\A t \in 1..Len(acq.all_missing_query_results) :
                 acq.all_missing_query_results[t][1] = id =>
                     acq.all_missing_query_results[t][2] = <<>>)
               => id \notin DOMAIN cache
    /\ (AcquisitionReturned /\ acq.result.features = <<>>) =>
          acq.combined_dataset_id \notin DOMAIN cache
    /\ Fetched34 =>
          \A id \in hist.before :
             (\E j \in 1..Len(acq.log) :
                 /\ acq.log[j].ev = "miss"
                 /\ acq.log[j].id = id
                 /\ id \in Keys(acq.missing_queries))
               => CallsFor(acq.log, id) >= 1

C34_Witness ==
    /\ Fetched34
    /\ invocations = 2
    /\ acq.phase = "ret"
    /\ acq.result.features = <<>>
    /\ \E id \in hist.before : CallsFor(acq.log, id) >= 1
    /\ cache = <<>>

(* Properties of sample mode *)
SampleMode == req.action = "sample"

\* C35: in sample mode an invocation runs one acquisition cycle, the plan is
\* neither read, rectified nor marked and stays as it was, the request keeps
\* its geography, and the invocation returns an empty plan name and 1 as the
\* next step index.
C35_SampleLeavesPlan ==
    SampleMode =>
        /\ cycles <= 1
        /\ plan = <<>>
        /\ req.geo = 0
        /\ current_plan_index = 0
        /\ hist.rectified = <<>>
        /\ hist.marked = <<>>
        /\ pc \in {"exit", "done"} => cycles = 1 /\ Len(hist.attempted) = 1
        /\ Returned =>
              /\ ret.plan_name = ""
              /\ ret.next_plan_index = 1
              /\ ret.next_page_token = req.page_token

C35_Witness ==
    /\ SampleMode
    /\ Returned
    /\ invocations = 2
    /\ acq.result.features = <<>>
    /\ ret.next_plan_index = 1

\* C36 (as stated): within one full-data invocation rectify_plan is called at
\* most once for any step index.
C36_RectifiedAtMostOnce ==
    FullData =>
        \A i \in 1..Len(hist.rectified) :
            Occurrences(hist.rectified, hist.rectified[i]) <= 1

MarkedWithFeatures ==
    /\ FullData
    /\ Returned
    /\ hist.marked[1].has_features

\* C37 (as stated): a full-data invocation that marked its step with
\* has_features = true returns at least one feature.
C37_MarkedImpliesReturned ==
    MarkedWithFeatures => ret.dataset.features # <<>>

\* C37 (amended): a full-data invocation marks its step with has_features =
\* true exactly when the last cycle had a feature whose id is not "n/a"; it
\* returns no feature exactly when none of those passes the validity filter.
C37_MarkedOnStrippedFeatures ==
    (FullData /\ Returned) =>
        LET real == {i \in 1..Len(acq.result.features) :
                        acq.result.features[i].id # NA}
        IN  /\ hist.marked[1].has_features = (real # {})
            /\ (ret.dataset.features = <<>>) =
                  (\A i \in real : ~KeptWithPhotosLink(acq.result.features[i]))

C37_Witness ==
    /\ MarkedWithFeatures
    /\ ret.dataset.features = <<>>
    /\ \A i \in 1..Len(acq.result.features) :
          acq.result.features[i].name # SentinelName

(* Properties of the stored fingerprints *)
TwoSided(id) == id.kind = "part" /\ id.inc # <<>> /\ id.exc # <<>>

\* C38: with keyword acquisitions only, whenever the cache holds the partial
\* dataset of a tuple with include and exclude terms it holds the include-only
\* and the exclude-only dataset of that tuple.
C38_PartialHasAtomics ==
    req.search_type = "keyword_search" =>
        \A id \in DOMAIN cache :
            TwoSided(id) =>
                /\ [id EXCEPT !.exc = <<>>] \in DOMAIN cache
                /\ [id EXCEPT !.inc = <<>>] \in DOMAIN cache

C38_Witness ==
    /\ req.search_type = "keyword_search"
    /\ invocations = 2
    /\ Returned
    /\ \E id \in DOMAIN cache :
          /\ TwoSided(id)
          /\ Len(cache[id].features) < Len(cache[[id EXCEPT !.exc = <<>>]].features)

----------------------------------------------------------------------------
(* The details call and the details store *)

FinishedEmpty(st) == st.done /\ AllFailed(st)

\* C39: a place-details call makes at most 3 attempts, none of them on the
\* legacy protocol; when every attempt failed it resolves to the empty result,
\* never to the sentinel batch, and nothing is written to the details store
\* for the place; a details record is written only from a non-empty result.
C39_DetailsCallGivesUpEmpty ==
    rs.kind = "get" =>
        /\ Len(AttemptsOf(rs)) <= 3
        /\ LegacyCount(rs) = 0
        /\ ~rs.use_legacy
        /\ ~rs.sentinel
        /\ rs.result # SentinelBatch
        /\ FinishedEmpty(rs) =>
               /\ Len(AttemptsOf(rs)) = 3
               /\ rs.result = <<>>
               /\ rs.place_id \notin DOMAIN place_details
        /\ rs.place_id \in DOMAIN place_details =>
               /\ rs.done
               /\ rs.result = <<place_details[rs.place_id]>>
               /\ place_details[rs.place_id] # EmptyDetails

\* A details call that failed three times next to one that was stored.
C39_Witness ==
    /\ rs.kind = "get"
    /\ FinishedEmpty(rs)
    /\ Len(AttemptsOf(rs)) = 3
    /\ rs.result = <<>>
    /\ DOMAIN place_details # {}
    /\ rs.place_id \notin DOMAIN place_details

====
